---- MODULE Spec2Model ----
(***************************************************************************)
(* Model of src/src/UI-Test-Checkout.py: the page object CheckoutPage      *)
(* (locator engine, interaction primitives, frame navigation, outcome      *)
(* classification) and the flow CheckoutTest.run.                          *)
(*                                                                         *)
(* Text (attribute values, label texts, URLs, typed values) is a sequence  *)
(* of one-character strings, so that case folding, whitespace              *)
(* normalisation and substring tests are computed and not assumed.         *)
(* A document is a sequence of element records in document order.          *)
(***************************************************************************)
EXTENDS Integers, Sequences, FiniteSets, TLC

VARIABLES
    page,       \* the browser's page: [top |-> document, frames |-> Seq(document)]
    ctx,        \* active frame context of the driver: 0 = top-level, f = iframe f
    pc,         \* position of CheckoutTest.run, or "call" in the page-object specifications
    log,        \* the interactions performed so far, in order
    driver,     \* CheckoutTest.driver: "none" | "open" | "quit"
    url,        \* driver.current_url
    clock,      \* time.time(), in ticks
    end,        \* wait_for_result: end
    result,     \* run: result of wait_for_result ("NONE" before)
    exc,        \* run: the exception in flight: "none", "error" (raised in the try
                \* block), "quit_error" (raised by driver.quit() in teardown)
    in_iframe,  \* fill_credit_card: in_iframe
    redirected, \* the URL has held an outcome keyword since before the deadline
    last        \* the last page-object call and what it returned

vars == <<page, ctx, pc, log, driver, url, clock, end, result, exc, in_iframe, redirected, last>>

----------------------------------------------------------------------------
(* Bounds of the model *)

\* longest document drawn for the locator engine
MaxDoc == 3
\* most iframes of a page
MaxFrames == 2
\* most page-object calls in one behaviour of the page-object specifications
MaxCalls == 2

----------------------------------------------------------------------------
(* Text *)

Min(S) == CHOOSE x \in S : \A y \in S : x <= y

First(S) == IF S = {} THEN 0 ELSE Min(S)

UpperChars == <<"A", "B", "C", "D", "E", "F", "G", "H", "I", "J", "K", "L", "M",
                "N", "O", "P", "Q", "R", "S", "T", "U", "V", "W", "X", "Y", "Z",
                "Ä", "Ö", "Ü">>

LowerChars == <<"a", "b", "c", "d", "e", "f", "g", "h", "i", "j", "k", "l", "m",
                "n", "o", "p", "q", "r", "s", "t", "u", "v", "w", "x", "y", "z",
                "ä", "ö", "ü">>

\* the position of c in the tuple t, 0 when absent
IndexOf(t, c) == First({i \in 1..Len(t) : t[i] = c})

\* XPath translate(s, 'ABC...ZÄÖÜ', 'abc...zäöü'): the 29 listed letters only
ToLower == [c \in {UpperChars[i] : i \in 1..29} |-> LowerChars[IndexOf(UpperChars, c)]]

TrChar(c) == IF c \in DOMAIN ToLower THEN ToLower[c] ELSE c

Translate(s) == [i \in 1..Len(s) |-> TrChar(s[i])]

\* XPath translate(s, 'ABC...Z', 'abc...z'): the 26 letters only
ToLowerAZ == [c \in {UpperChars[i] : i \in 1..26} |-> LowerChars[IndexOf(UpperChars, c)]]

TrCharAZ(c) == IF c \in DOMAIN ToLowerAZ THEN ToLowerAZ[c] ELSE c

TranslateAZ(s) == [i \in 1..Len(s) |-> TrCharAZ(s[i])]

\* Python str.lower(): every cased letter, the accented ones included
PyLowerChar(c) == IF c = "É" THEN "é" ELSE TrChar(c)

PyLower(s) == [i \in 1..Len(s) |-> PyLowerChar(s[i])]

\* Python str.upper() on the letters the URLs are made of
ToUpper == [c \in {LowerChars[i] : i \in 1..29} |-> UpperChars[IndexOf(LowerChars, c)]]

PyUpperChar(c) == IF c \in DOMAIN ToUpper THEN ToUpper[c] ELSE c

PyUpper(s) == [i \in 1..Len(s) |-> PyUpperChar(s[i])]

\* XPath contains(s, sub), Python `sub in s`
Contains(s, sub) ==
    \E i \in 0..(Len(s) - Len(sub)) : SubSeq(s, i + 1, i + Len(sub)) = sub

IsSpace(c) == c \in {" ", "\n"}

RECURSIVE LStrip(_)
LStrip(s) == IF s # <<>> /\ IsSpace(Head(s)) THEN LStrip(Tail(s)) ELSE s

RECURSIVE RStrip(_)
RStrip(s) == IF s # <<>> /\ IsSpace(s[Len(s)]) THEN RStrip(SubSeq(s, 1, Len(s) - 1)) ELSE s

\* Python str.strip()
Strip(s) == RStrip(LStrip(s))

RECURSIVE Collapse(_)
Collapse(s) ==
    IF Len(s) < 2 THEN s
    ELSE IF IsSpace(s[1]) /\ IsSpace(s[2]) THEN Collapse(Tail(s))
    ELSE <<Head(s)>> \o Collapse(Tail(s))

\* XPath normalize-space(): strip, and collapse runs of whitespace
NormalizeSpace(s) == Collapse(Strip(s))

----------------------------------------------------------------------------
(* Documents *)

\* an element with no attributes set
Blank ==
    [tag |-> "", text |-> <<>>, for |-> <<>>, id |-> <<>>, name |-> <<>>, class |-> <<>>,
     placeholder |-> <<>>, aria |-> <<>>, type |-> <<>>, inputmode |-> <<>>,
     role |-> <<>>, ce |-> FALSE, visible |-> TRUE, enabled |-> TRUE,
     options |-> <<>>, popup |-> FALSE, value |-> <<>>]

\* the document of the active context
Doc(p, c) == IF c = 0 THEN p.top ELSE p.frames[c]

SetDoc(p, c, d) == IF c = 0 THEN [p EXCEPT !.top = d] ELSE [p EXCEPT !.frames[c] = d]

IsTextInput(n) == n.tag \in {"input", "textarea"}

\* _input_by_attrs_keywords testing the name attribute alone
NameMatches(n, keywords) ==
    \E k \in 1..Len(keywords) : Contains(Translate(n.name), PyLower(keywords[k]))

\* some attribute of name|id|placeholder|aria-label contains some keyword
AttrsMatch(n, keywords) ==
    \E k \in 1..Len(keywords) :
        \/ Contains(Translate(n.name), PyLower(keywords[k]))
        \/ Contains(Translate(n.id), PyLower(keywords[k]))
        \/ Contains(Translate(n.placeholder), PyLower(keywords[k]))
        \/ Contains(Translate(n.aria), PyLower(keywords[k]))

\* //label[normalize-space()='label_text']
LabelMatches(n, label_text) == n.tag = "label" /\ NormalizeSpace(n.text) = label_text

----------------------------------------------------------------------------
(* Locators: what the code hands to find_element, as [by, v].              *)
(* find_element returns the FIRST element in document order that matches.  *)

s_card_number == <<"c", "a", "r", "d", "-", "n", "u", "m", "b", "e", "r">>
s_cardNumber == <<"c", "a", "r", "d", "N", "u", "m", "b", "e", "r">>
s_Card_number == <<"C", "a", "r", "d", " ", "n", "u", "m", "b", "e", "r">>
s_Kartennummer == <<"K", "a", "r", "t", "e", "n", "n", "u", "m", "m", "e", "r">>
s_numeric == <<"n", "u", "m", "e", "r", "i", "c">>
s_tel == <<"t", "e", "l">>
s_exp_date == <<"e", "x", "p", "-", "d", "a", "t", "e">>
s_expiry == <<"e", "x", "p", "i", "r", "y">>
s_MM == <<"M", "M">>
s_Expiry == <<"E", "x", "p", "i", "r", "y">>
s_expiryYear == <<"e", "x", "p", "i", "r", "y", "Y", "e", "a", "r">>
s_cardCvv == <<"c", "a", "r", "d", "C", "v", "v">>
s_cvc == <<"c", "v", "c">>
s_CVC == <<"C", "V", "C">>
s_CVV == <<"C", "V", "V">>
s_option == <<"o", "p", "t", "i", "o", "n">>
s_submit == <<"s", "u", "b", "m", "i", "t">>

\* fill_credit_card: CARD_NUMBER_XP
IsCardNumber(n) ==
    /\ n.tag = "input"
    /\ \/ n.id = s_card_number
       \/ n.name = s_cardNumber
       \/ Contains(n.placeholder, s_Card_number)
       \/ Contains(n.placeholder, s_Kartennummer)
       \/ n.inputmode = s_numeric
       \/ n.type = s_tel

\* fill_credit_card: EXPIRY_XP
IsExpiry(n) ==
    /\ n.tag = "input"
    /\ \/ n.id = s_exp_date
       \/ n.name = s_expiry
       \/ Contains(n.placeholder, s_MM)
       \/ Contains(n.placeholder, s_Expiry)

\* fill_credit_card: CVC_XP
IsCvc(n) ==
    /\ n.tag = "input"
    /\ \/ n.id = s_cardCvv
       \/ n.name = s_cvc
       \/ Contains(n.placeholder, s_CVC)
       \/ Contains(n.placeholder, s_CVV)

\* //div[@role='option' or self::li][normalize-space()='text']: the step is
\* div, so the predicate's self::li never holds
IsOption(n, text) ==
    /\ n.tag = "div"
    /\ (n.role = s_option \/ n.tag = "li")
    /\ NormalizeSpace(n.text) = text

\* //*[self::button or self::a][contains(.,t1) or contains(.,t2) ...]
IsButtonWithText(n, texts) ==
    /\ n.tag \in {"button", "a"}
    /\ \E k \in 1..Len(texts) : Contains(n.text, texts[k])

\* (//button[translate(@type,A-Z,a-z)='t'] | //input[...])
IsButtonOfType(n, types) ==
    /\ n.tag \in {"button", "input"}
    /\ \E k \in 1..Len(types) : TranslateAZ(n.type) = PyLower(types[k])

\* wait_for_customer_form, line 382:
\* //label | //*[contains(@class,'customer') or contains(.,'Kundendaten') or contains(.,'Customer')]
IsFormMarker(n) ==
    \/ n.tag = "label"
    \/ Contains(n.class, <<"c", "u", "s", "t", "o", "m", "e", "r">>)
    \/ Contains(n.text, <<"K", "u", "n", "d", "e", "n", "d", "a", "t", "e", "n">>)
    \/ Contains(n.text, <<"C", "u", "s", "t", "o", "m", "e", "r">>)

\* wait_for_result, line 491: //*[contains(.,'erfolgreich') or contains(.,'success')
\* or contains(.,'fehlgeschlagen') or contains(.,'failed')]
IsStatus(n) ==
    \/ Contains(n.text, <<"e", "r", "f", "o", "l", "g", "r", "e", "i", "c", "h">>)
    \/ Contains(n.text, <<"s", "u", "c", "c", "e", "s", "s">>)
    \/ Contains(n.text, <<"f", "e", "h", "l", "g", "e", "s", "c", "h", "l", "a", "g", "e", "n">>)
    \/ Contains(n.text, <<"f", "a", "i", "l", "e", "d">>)

\* does element i of document d match the locator
Matches(d, i, loc) ==
    CASE loc.by = "id" -> d[i].id = loc.v
      [] loc.by = "label" -> LabelMatches(d[i], loc.v)
      [] loc.by = "label_input" ->
            /\ IsTextInput(d[i])
            /\ \E l \in 1..(i - 1) :
                  /\ LabelMatches(d[l], loc.v)
                  /\ \A j \in (l + 1)..(i - 1) : ~IsTextInput(d[j])
      [] loc.by = "label_select" ->
            /\ d[i].tag = "select"
            /\ \E l \in 1..(i - 1) :
                  /\ LabelMatches(d[l], loc.v)
                  /\ \A j \in (l + 1)..(i - 1) : d[j].tag # "select"
      [] loc.by = "attrs" -> IsTextInput(d[i]) /\ AttrsMatch(d[i], loc.v)
      [] loc.by = "contenteditable" ->
            /\ d[i].ce
            /\ \E k \in 1..Len(loc.v) : Contains(Translate(d[i].aria), PyLower(loc.v[k]))
      [] loc.by = "card_number" -> IsCardNumber(d[i])
      [] loc.by = "expiry" -> IsExpiry(d[i])
      [] loc.by = "cvc" -> IsCvc(d[i])
      [] loc.by = "option" -> IsOption(d[i], loc.v)
      [] loc.by = "button_text" -> IsButtonWithText(d[i], loc.v)
      [] loc.by = "button_type" -> IsButtonOfType(d[i], loc.v)
      [] loc.by = "form_marker" -> IsFormMarker(d[i])
      [] OTHER -> FALSE

\* driver.find_element: the first match in document order, 0 when none
FindElement(d, loc) == First({i \in 1..Len(d) : Matches(d, i, loc)})

\* EC.presence_of_element_located, as self.wait.until leaves it at the timeout
Present(d, loc) == FindElement(d, loc) # 0

\* element i of d if there is one and it is displayed, else 0
IfVisible(d, i) == IF i # 0 /\ d[i].visible THEN i ELSE 0

\* EC.visibility_of_element_located: the first match, if it is displayed; 0 = timeout
VisibleElement(d, loc) == IfVisible(d, FindElement(d, loc))

\* element i of d if there is one and it is enabled, else 0
IfEnabled(d, i) == IF i # 0 /\ d[i].enabled THEN i ELSE 0

\* EC.element_to_be_clickable: the first match, if it is displayed and enabled
ClickableElement(d, loc) == IfEnabled(d, VisibleElement(d, loc))

\* what a primitive returns when it raised: nothing was touched
Failed(d) == [ok |-> FALSE, el |-> 0, doc |-> d]

Succeeded(d, i) == [ok |-> TRUE, el |-> i, doc |-> d]

----------------------------------------------------------------------------
(* Form interaction primitives *)

\* WebElement.clear() raises on an element the user cannot edit
Editable(n) == n.enabled /\ (IsTextInput(n) \/ n.ce)

\* WebElement.send_keys: the keys are appended to the content
SendKeys(n, text) == [n EXCEPT !.value = n.value \o text]

Clear(n) == [n EXCEPT !.value = <<>>]

\* CheckoutPage._by_label_input: the locator, or NoLocator when the label wait timed out
NoLocator == [by |-> "none", v |-> <<>>]

\* _by_label_input / _by_label_select, from the label l on: its `for`, or the
\* first following element of the kind
LocatorOfLabel(d, l, label_text, following) ==
    IF l = 0 THEN NoLocator
    ELSE IF d[l].for # <<>> THEN [by |-> "id", v |-> d[l].for]
    ELSE [by |-> following, v |-> label_text]

ByLabelInput(d, label_text) ==
    LocatorOfLabel(d, FindElement(d, [by |-> "label", v |-> label_text]), label_text,
                   "label_input")

\* CheckoutPage._by_label_select
ByLabelSelect(d, label_text) ==
    LocatorOfLabel(d, FindElement(d, [by |-> "label", v |-> label_text]), label_text,
                   "label_select")

\* _enter_text without the clear of line 265
TypeWithoutClear(d, i, text) ==
    IF i = 0 \/ ~Editable(d[i]) THEN Failed(d)
    ELSE Succeeded([d EXCEPT ![i] = SendKeys(d[i], text)], i)

\* _enter_text, lines 264-266, on the element i the wait returned (0: it timed out)
ClearAndType(d, i, text) ==
    IF i = 0 \/ ~Editable(d[i]) THEN Failed(d)
    ELSE Succeeded([d EXCEPT ![i] = SendKeys(Clear(d[i]), text)], i)

\* CheckoutPage._enter_text: wait visible, scroll, clear, send_keys
EnterText(d, loc, text) == ClearAndType(d, VisibleElement(d, loc), text)

\* WebElement.click on a control: a custom dropdown opens its popup
Click(d, i) ==
    [j \in 1..Len(d) |->
        IF d[j].popup /\ d[i].enabled /\ ~d[i].popup
        THEN [d[j] EXCEPT !.visible = TRUE] ELSE d[j]]

\* Select(el).select_by_visible_text(text) succeeds on a <select> with that option
NativeSelectable(n, text) ==
    /\ n.tag = "select"
    /\ \E k \in 1..Len(n.options) : NormalizeSpace(n.options[k]) = text

\* _select_by_text, lines 277-281: the option o of the opened dropdown is clicked
ClickOption(opened, i, o, text) ==
    IF o = 0 THEN Failed(opened) ELSE Succeeded([opened EXCEPT ![i].value = text], o)

\* _select_by_text, lines 275-281: the custom dropdown i is clicked open
CustomSelect(opened, i, text) ==
    ClickOption(opened, i, ClickableElement(opened, [by |-> "option", v |-> text]), text)

\* _select_by_text, lines 271-281, on the element i the wait returned
SelectOn(d, i, text) ==
    IF i = 0 THEN Failed(d)
    ELSE IF NativeSelectable(d[i], text) THEN Succeeded([d EXCEPT ![i].value = text], i)
    ELSE CustomSelect(Click(d, i), i, text)

\* CheckoutPage._select_by_text
SelectByText(d, loc, text) == SelectOn(d, VisibleElement(d, loc), text)

\* the button b the wait returned (0: it timed out) is clicked
ClickOn(d, b) == IF b = 0 THEN Failed(d) ELSE Succeeded(d, b)

\* CheckoutPage._click_button_by_text
ClickButtonByText(d, texts) ==
    ClickOn(d, ClickableElement(d, [by |-> "button_text", v |-> texts]))

\* CheckoutPage._click_button_by_type
ClickButtonByType(d, types) ==
    IF types = <<>> THEN Failed(d)
    ELSE ClickOn(d, ClickableElement(d, [by |-> "button_type", v |-> types]))

\* CheckoutPage._input_by_attrs_keywords
InputByAttrsKeywords(keywords) == [by |-> "attrs", v |-> keywords]

----------------------------------------------------------------------------
(* Locator engine *)

\* one attempt of _enter_any: by_label_input(lbl) then _enter_text
TryLabel(d, lbl, value) == EnterText(d, ByLabelInput(d, lbl), value)

\* _enter_any, lines 356-361: the attribute-keyword attempt
TryAttrs(d, attr_keywords, value) == EnterText(d, InputByAttrsKeywords(attr_keywords), value)

\* _enter_any, lines 362-374: the contenteditable attempt: click and send_keys, no clear
\* _enter_any, line 370: el.send_keys(value) on the clicked element, no clear
TypeInto(d, i, value) == Succeeded([d EXCEPT ![i] = SendKeys(d[i], value)], i)

\* _enter_any, lines 366-370, on the element i the wait returned
ClickAndType(d, i, value) ==
    IF i = 0 THEN Failed(d) ELSE TypeInto(Click(d, i), i, value)

TryContenteditable(d, attr_keywords, value) ==
    ClickAndType(d, VisibleElement(d, [by |-> "contenteditable", v |-> attr_keywords]), value)

\* what _enter_any reports: the strategy that filled the field, the label
\* candidate it used, the element, the attempts made in order, the document after
Outcome(r, strategy, cand, attempts) ==
    [ok |-> r.ok, strategy |-> strategy, cand |-> cand, el |-> r.el,
     attempts |-> attempts, doc |-> r.doc]

Attempt(strategy, cand) == [s |-> strategy, c |-> cand]

\* _enter_any returning normally where line 376 raises
ContenteditableOrReturn(c, d, attempts) ==
    IF c.ok THEN Outcome(c, "contenteditable", 0, attempts)
    ELSE Outcome(Succeeded(d, 0), "none", 0, attempts)

\* _enter_any, lines 362-376: c is what the contenteditable attempt gave; if it
\* failed too, the RuntimeError of line 376
ContenteditableOrRaise(c, d, attempts) ==
    IF c.ok THEN Outcome(c, "contenteditable", 0, attempts)
    ELSE Outcome(Failed(d), "none", 0, attempts)

\* _enter_any, lines 356-376: a is what the attribute-keyword attempt gave
AttrsOrContenteditable(a, d, attr_keywords, value, attempts) ==
    IF a.ok THEN Outcome(a, "attr", 0, attempts)
    ELSE ContenteditableOrRaise(TryContenteditable(d, attr_keywords, value), d,
                                Append(attempts, Attempt("contenteditable", 0)))

\* _enter_any, lines 356-376: after the label candidates
AfterLabels(d, attr_keywords, value, attempts) ==
    AttrsOrContenteditable(TryAttrs(d, attr_keywords, value), d, attr_keywords, value,
                           Append(attempts, Attempt("attr", 0)))

\* _enter_any, lines 349-355: for lbl in label_candidates, from candidate k on;
\* LabelOrNext: r is what the attempt of candidate k gave
RECURSIVE LabelLoop(_, _, _, _, _, _), LabelOrNext(_, _, _, _, _, _, _)
LabelLoop(d, label_candidates, attr_keywords, value, k, attempts) ==
    IF k > Len(label_candidates) THEN AfterLabels(d, attr_keywords, value, attempts)
    ELSE LabelOrNext(TryLabel(d, label_candidates[k], value), d, label_candidates,
                     attr_keywords, value, k, Append(attempts, Attempt("label", k)))

LabelOrNext(r, d, label_candidates, attr_keywords, value, k, attempts) ==
    IF r.ok THEN Outcome(r, "label", k, attempts)
    ELSE LabelLoop(d, label_candidates, attr_keywords, value, k + 1, attempts)

\* _enter_any, lines 343-355: r is what the attempt of the first candidate alone gave
FirstLabelOrLoop(r, d, label_candidates, attr_keywords, value) ==
    IF r.ok THEN Outcome(r, "label", 1, <<Attempt("label", 1)>>)
    ELSE LabelLoop(d, label_candidates, attr_keywords, value, 1, <<Attempt("label", 1)>>)

\* _enter_any with the attribute-keyword attempt made before the label candidates
AttrsOrLabels(a, d, label_candidates, attr_keywords, value) ==
    IF a.ok THEN Outcome(a, "attr", 0, <<Attempt("attr", 0)>>)
    ELSE LabelLoop(d, label_candidates, attr_keywords, value, 1, <<Attempt("attr", 0)>>)

EnterAnyAttrsFirst(d, label_candidates, attr_keywords, value) ==
    AttrsOrLabels(TryAttrs(d, attr_keywords, value), d, label_candidates, attr_keywords, value)

\* CheckoutPage._enter_any: the first candidate alone (lines 343-348), then the loop
EnterAny(d, label_candidates, attr_keywords, value) ==
    IF label_candidates = <<>>
    THEN LabelLoop(d, label_candidates, attr_keywords, value, 1, <<>>)
    ELSE FirstLabelOrLoop(TryLabel(d, label_candidates[1], value), d, label_candidates,
                          attr_keywords, value)

\* the locator of the strategy of priority k: the label candidates in order,
\* then the attribute keywords, then contenteditable
StrategyLocator(d, label_candidates, attr_keywords, k) ==
    IF k <= Len(label_candidates) THEN ByLabelInput(d, label_candidates[k])
    ELSE IF k = Len(label_candidates) + 1 THEN InputByAttrsKeywords(attr_keywords)
    ELSE [by |-> "contenteditable", v |-> attr_keywords]

----------------------------------------------------------------------------
(* Frame navigation *)

\* driver.find_elements(By.TAG_NAME, "iframe") in context c: the iframes of the
\* top-level document are page.frames; a frame's document holds none
Iframes(p, c) == IF c = 0 THEN Len(p.frames) ELSE 0

\* _switch_into_iframe_with, lines 316-325: the loop from iframe f on
RECURSIVE FrameLoop(_, _, _, _)
FrameLoop(p, loc, f, n) ==
    IF f > n THEN [ret |-> FALSE, ctx |-> 0]
    ELSE IF VisibleElement(Doc(p, f), loc) # 0 THEN [ret |-> TRUE, ctx |-> f]
    ELSE FrameLoop(p, loc, f + 1, n)

\* driver.switch_to.default_content(), called in context c
DefaultContent(c) == 0

\* _switch_into_iframe_with without the reset of line 314
SwitchWithoutReset(p, c, loc) == FrameLoop(p, loc, 1, Iframes(p, c))

\* CheckoutPage._switch_into_iframe_with, called in context c: reset to the
\* top-level document, enumerate its iframes, probe each in turn
SwitchIntoIframeWith(p, c, loc) == FrameLoop(p, loc, 1, Iframes(p, DefaultContent(c)))

\* _leave_iframe leaving the context as it is
LeaveNothing(c) == c

\* CheckoutPage._leave_iframe, called in context c
LeaveIframe(c) == DefaultContent(c)

----------------------------------------------------------------------------
(* The locator engine on its own: a document drawn from a palette of        *)
(* elements, and calls of _enter_any with the e-mail descriptor of          *)
(* fill_customer_data.                                                      *)

s_old == <<"o", "l", "d">>
s_em == <<"e", "m">>

\* fill_customer_data, line 390: label_candidates of the e-mail field
EmailLabels == <<<<"E", "-", "M", "a", "i", "l">>, <<"E", "-", "M", "a", "i", "l", "-", "A", "d", "r", "e", "s", "s", "e">>, <<"E", "m", "a", "i", "l">>, <<"E", "-", "M", "a", "i", "l", " ", "*">>>>

\* fill_customer_data, line 391: attr_keywords of the e-mail field
EmailKeywords == <<<<"e", "-", "m", "a", "i", "l">>, <<"e", "m", "a", "i", "l">>>>

\* TestConfig.CUSTOMER_DATA["email"], and a second value
Values == {<<"t", "e", "s", "t", "u", "s", "e", "r", "@", "e", "x", "a", "m", "p", "l", "e", ".", "c", "o", "m">>, <<"a", "@", "b", ".", "d", "e">>}

Palette ==
    { [Blank EXCEPT !.tag = "label", !.text = <<"E", "-", "M", "a", "i", "l">>, !.for = s_em],
      [Blank EXCEPT !.tag = "label", !.text = <<" ", " ", "E", "-", "M", "a", "i", "l", "-", "A", "d", "r", "e", "s", "s", "e", " ">>],
      [Blank EXCEPT !.tag = "label", !.text = <<"E", "m", "a", "i", "l">>],
      [Blank EXCEPT !.tag = "input", !.id = s_em, !.name = <<"e", "m", "a", "i", "l">>, !.value = s_old],
      [Blank EXCEPT !.tag = "input", !.id = s_em, !.name = <<"e", "m", "a", "i", "l">>, !.visible = FALSE],
      [Blank EXCEPT !.tag = "input", !.name = <<"c", "u", "s", "t", "o", "m", "e", "r", "E", "m", "a", "i", "l">>],
      [Blank EXCEPT !.tag = "textarea", !.placeholder = <<"E", "-", "M", "A", "I", "L">>, !.enabled = FALSE],
      [Blank EXCEPT !.tag = "input", !.id = <<"p", "h", "o", "n", "e">>, !.aria = <<"É", "-", "M", "a", "i", "l">>],
      [Blank EXCEPT !.tag = "div", !.ce = TRUE, !.aria = <<"E", "m", "a", "i", "l">>, !.value = s_old] }

\* the documents of at most MaxDoc elements of the palette
Documents == UNION {[1..n -> Palette] : n \in 0..MaxDoc}

NoCall == [op |-> "none", n |-> 0]

InitLocator ==
    /\ page \in {[top |-> d, frames |-> <<>>] : d \in Documents}
    /\ ctx = 0
    /\ pc = "call"
    /\ log = <<>>
    /\ driver = "open"
    /\ url = <<>>
    /\ clock = 0
    /\ end = 0
    /\ result = <<>>
    /\ exc = "none"
    /\ in_iframe = FALSE
    /\ redirected = FALSE
    /\ last = NoCall

\* the call of _enter_any returned r
EnterAnyReturned(label_candidates, attr_keywords, value, r) ==
    /\ page' = SetDoc(page, ctx, r.doc)
    /\ last' = [op |-> "enter_any", n |-> last.n + 1, before |-> Doc(page, ctx),
                labels |-> label_candidates, keywords |-> attr_keywords,
                value |-> value, res |-> r]

\* a call of CheckoutPage._enter_any on the active document
EnterAnyCall(label_candidates, attr_keywords, value) ==
    /\ pc = "call"
    /\ last.n < MaxCalls
    /\ EnterAnyReturned(label_candidates, attr_keywords, value,
                        EnterAny(Doc(page, ctx), label_candidates, attr_keywords, value))
    /\ UNCHANGED <<ctx, pc, log, driver, url, clock, end, result, exc, in_iframe, redirected>>

\* _enter_text on its own: documents of at most MaxFields elements of the
\* palette, and calls of _enter_text one after the other
MaxFields == 2

InitText ==
    /\ page \in {[top |-> d, frames |-> <<>>] :
                    d \in UNION {[1..n -> Palette] : n \in 0..MaxFields}}
    /\ ctx = 0
    /\ pc = "text"
    /\ log = <<>>
    /\ driver = "open"
    /\ url = <<>>
    /\ clock = 0
    /\ end = 0
    /\ result = <<>>
    /\ exc = "none"
    /\ in_iframe = FALSE
    /\ redirected = FALSE
    /\ last = NoCall

\* locators _enter_text is called with: by id, and by attribute keywords
TextLocators == {[by |-> "id", v |-> s_em], InputByAttrsKeywords(EmailKeywords)}

\* the call of _enter_text returned r
EnterTextReturned(loc, text, r) ==
    /\ page' = SetDoc(page, ctx, r.doc)
    /\ last' = [op |-> "enter_text", n |-> last.n + 1, before |-> Doc(page, ctx),
                loc |-> loc, value |-> text, res |-> r, prev |-> last]

\* a call of CheckoutPage._enter_text on the active document
EnterTextCall(loc, text) ==
    /\ pc = "text"
    /\ last.n < MaxCalls
    /\ EnterTextReturned(loc, text, EnterText(Doc(page, ctx), loc, text))
    /\ UNCHANGED <<ctx, pc, log, driver, url, clock, end, result, exc, in_iframe, redirected>>

NextLocator == \E value \in Values : EnterAnyCall(EmailLabels, EmailKeywords, value)

SpecLocator == InitLocator /\ [][NextLocator]_vars

NextText == \E loc \in TextLocators, value \in Values : EnterTextCall(loc, value)

SpecText == InitText /\ [][NextText]_vars

----------------------------------------------------------------------------
(* Claims about the locator engine (SpecLocator) *)

\* the priority of an attempt: label candidates in the given order, then the
\* attribute keywords, then contenteditable
Rank(a, label_candidates) ==
    CASE a.s = "label" -> a.c
      [] a.s = "attr" -> Len(label_candidates) + 1
      [] OTHER -> Len(label_candidates) + 2

\* would the strategy of priority k fill the field of document d
Satisfiable(d, label_candidates, attr_keywords, value, k) ==
    IF k <= Len(label_candidates) THEN TryLabel(d, label_candidates[k], value).ok
    ELSE IF k = Len(label_candidates) + 1 THEN TryAttrs(d, attr_keywords, value).ok
    ELSE TryContenteditable(d, attr_keywords, value).ok

\* the document the strategy of priority k leaves
FilledBy(d, label_candidates, attr_keywords, value, k) ==
    IF k <= Len(label_candidates) THEN TryLabel(d, label_candidates[k], value)
    ELSE IF k = Len(label_candidates) + 1 THEN TryAttrs(d, attr_keywords, value)
    ELSE TryContenteditable(d, attr_keywords, value)

\* C4: _enter_any attempts the strategies in the fixed priority order (label
\* candidates in the given order, attribute keywords, contenteditable), skipping
\* none; the first strategy that can fill the field fills it and is the last
\* attempt made; so a satisfiable label candidate wins over the attribute
\* keywords, and an earlier candidate over a later one.
C4_StrategyOrder ==
    last.op = "enter_any" =>
        LET r == last.res
            L == last.labels
            att == r.attempts
            n == Len(att)
            sat == {k \in 1..(Len(L) + 2) :
                        Satisfiable(last.before, L, last.keywords, last.value, k)}
        IN  /\ n >= 1
            /\ \A i \in 1..(n - 1) : Rank(att[i], L) <= Rank(att[i + 1], L)
            /\ \A k \in 1..Rank(att[n], L) : \E i \in 1..n : Rank(att[i], L) = k
            /\ r.ok <=> sat # {}
            /\ r.ok =>
                  /\ Rank(att[n], L) = Min(sat)
                  /\ Rank(Attempt(r.strategy, r.cand), L) = Min(sat)
                  /\ r.doc = FilledBy(last.before, L, last.keywords, last.value, Min(sat)).doc
                  /\ r.el = FilledBy(last.before, L, last.keywords, last.value, Min(sat)).el
            /\ ~r.ok => Rank(att[n], L) = Len(L) + 2 /\ r.doc = last.before

\* C4 witness: a later label candidate and the attribute keywords could both fill
\* the field, and the field was filled through the earlier label candidate
C4_Witness ==
    /\ last.op = "enter_any"
    /\ last.res.ok
    /\ last.res.strategy = "label"
    /\ \E k \in 1..Len(last.labels) :
          /\ k > last.res.cand
          /\ Satisfiable(last.before, last.labels, last.keywords, last.value, k)
    /\ Satisfiable(last.before, last.labels, last.keywords, last.value, Len(last.labels) + 1)

\* the element a label candidate resolves to, 0 when the label or its target is absent
LabelTarget(d, lbl) == FindElement(d, ByLabelInput(d, lbl))

\* C5 (as claimed): whenever the label-matched element is hidden and some visible,
\* editable input/textarea matches an attribute keyword, _enter_any fills a
\* visible element through the attribute-keyword strategy.
C5_VisibilityGating ==
    LET d == last.before
        targets == {LabelTarget(d, last.labels[k]) : k \in 1..Len(last.labels)} \ {0}
    IN  ( /\ last.op = "enter_any"
          /\ targets # {}
          /\ \A i \in targets : ~d[i].visible
          /\ \E i \in 1..Len(d) :
                /\ IsTextInput(d[i]) /\ AttrsMatch(d[i], last.keywords)
                /\ d[i].visible /\ Editable(d[i]) )
        => /\ last.res.ok
           /\ last.res.strategy = "attr"
           /\ d[last.res.el].visible

\* the element the wait of the strategy of priority k of the last call returned,
\* 0 when it timed out
Yielded(k) ==
    VisibleElement(last.before,
                   StrategyLocator(last.before, last.labels, last.keywords, k))

Strategies == 1..(Len(last.labels) + 2)

AttrsOf(n) == {n.name, n.id, n.placeholder, n.aria}

\* a letter without its case and without its diacritic
FoldChar(c) ==
    CASE c \in {"É", "é"} -> "e"
      [] c \in {"Ä", "ä"} -> "a"
      [] c \in {"Ö", "ö"} -> "o"
      [] c \in {"Ü", "ü"} -> "u"
      [] OTHER -> TrChar(c)

Fold(s) == [i \in 1..Len(s) |-> FoldChar(s[i])]

\* the inputs and textareas of document d of which some attribute holds some
\* keyword, whatever the case and the diacritics
InsensitiveMatches(d, keywords) ==
    {i \in 1..Len(d) :
        /\ IsTextInput(d[i])
        /\ \E k \in 1..Len(keywords), a \in AttrsOf(d[i]) :
              Contains(Fold(a), Fold(keywords[k]))}

\* the keyword kw stands in the attribute a from position j + 1 on, letter for
\* letter, where the letters A-Z, Ä, Ö, Ü of the attribute count as their
\* lower-case forms and the keyword is taken in lower case
StandsAt(a, kw, j) == \A p \in 1..Len(kw) : TrChar(a[j + p]) = PyLowerChar(kw[p])

\* the inputs and textareas of document d of which some attribute holds some
\* keyword, whatever the case of the letters A-Z, Ä, Ö, Ü
CaseFoldedMatches(d, keywords) ==
    {i \in 1..Len(d) :
        /\ IsTextInput(d[i])
        /\ \E k \in 1..Len(keywords), a \in AttrsOf(d[i]) :
              \E j \in 0..(Len(a) - Len(keywords[k])) : StandsAt(a, keywords[k], j)}

EnteredTwice ==
    /\ last.op = "enter_text"
    /\ last.res.ok
    /\ last.prev.op = "enter_text"
    /\ last.prev.res.ok
    /\ last.prev.loc = last.loc

\* C14: after _enter_text with v1 and then _enter_text with v2 on the same
\* locator, the element both calls typed into holds v2 and nothing else,
\* whatever it held before and whatever v1 was, and the document differs from
\* the one before the first call in the content of that element only.
C14_ClearThenType ==
    EnteredTwice =>
        /\ last.res.el = last.prev.res.el
        /\ Doc(page, ctx)[last.res.el].value = last.value
        /\ Doc(page, ctx) = [last.prev.before EXCEPT ![last.res.el].value = last.value]

\* C14 witness: two calls with different values on a field that held content
C14_Witness ==
    /\ EnteredTwice
    /\ last.prev.value # last.value
    /\ last.prev.before[last.res.el].value = s_old

----------------------------------------------------------------------------
(* Frame navigation on its own: a page with up to MaxFrames iframes, calls  *)
(* of _switch_into_iframe_with and _leave_iframe in any order, and the      *)
(* browser rendering the documents anew in between.                         *)

CardNumberLocator == [by |-> "card_number", v |-> <<>>]

CardNumberInput == [Blank EXCEPT !.tag = "input", !.id = s_card_number]

CvcInput == [Blank EXCEPT !.tag = "input", !.name = s_cvc]

\* what a frame (or the top-level document) may hold of the card form
FrameDocuments ==
    { <<>>,
      <<CardNumberInput>>,
      <<[CardNumberInput EXCEPT !.visible = FALSE]>>,
      <<[CardNumberInput EXCEPT !.visible = FALSE], [CardNumberInput EXCEPT !.id = <<>>, !.type = s_tel]>>,
      <<CvcInput>> }

FramePages ==
    {[top |-> d, frames |-> fs] :
        d \in {<<>>, <<CardNumberInput>>},
        fs \in UNION {[1..n -> FrameDocuments] : n \in 0..MaxFrames}}

InitFrame ==
    /\ page \in FramePages
    /\ ctx = 0
    /\ pc = "call"
    /\ log = <<>>
    /\ driver = "open"
    /\ url = <<>>
    /\ clock = 0
    /\ end = 0
    /\ result = <<>>
    /\ exc = "none"
    /\ in_iframe = FALSE
    /\ redirected = FALSE
    /\ last = NoCall

\* the call of _switch_into_iframe_with returned r
SwitchReturned(loc, r) ==
    /\ ctx' = r.ctx
    /\ last' = [op |-> "switch", n |-> 0, from |-> ctx, page |-> page,
                loc |-> loc, ret |-> r.ret]

\* a call of CheckoutPage._switch_into_iframe_with
SwitchCall(loc) ==
    /\ pc = "call"
    /\ SwitchReturned(loc, SwitchIntoIframeWith(page, ctx, loc))
    /\ UNCHANGED <<page, pc, log, driver, url, clock, end, result, exc, in_iframe, redirected>>

\* a call of CheckoutPage._leave_iframe
LeaveCall ==
    /\ pc = "call"
    /\ ctx' = LeaveIframe(ctx)
    /\ last' = [op |-> "leave", n |-> 0, from |-> ctx]
    /\ UNCHANGED <<page, pc, log, driver, url, clock, end, result, exc, in_iframe, redirected>>

\* the browser renders the document of one frame anew between two calls
Render ==
    /\ pc = "call"
    /\ \E f \in 1..Len(page.frames), d \in FrameDocuments :
          page' = [page EXCEPT !.frames[f] = d]
    /\ UNCHANGED <<ctx, pc, log, driver, url, clock, end, result, exc, in_iframe, redirected, last>>

NextFrame == SwitchCall(CardNumberLocator) \/ LeaveCall \/ Render

SpecFrame == InitFrame /\ [][NextFrame]_vars

\* C6: after any sequence of _switch_into_iframe_with and _leave_iframe calls the
\* active context is the top-level document or one iframe of the page, and after
\* every _leave_iframe it is the top-level document.
C6_FrameInvariant ==
    /\ ctx \in 0..Len(page.frames)
    /\ last.op = "leave" => ctx = 0

\* C6 witness: _leave_iframe was called inside an iframe
C6_Witness == last.op = "leave" /\ last.from # 0 /\ ctx = 0

\* the iframes whose document shows the target visible within the timeout
Showing(p, loc) == {f \in 1..Len(p.frames) : VisibleElement(p.frames[f], loc) # 0}

\* C7: _switch_into_iframe_with, from any context, returns true exactly when some
\* iframe of the top-level document shows the target, and then the first such
\* iframe is active; otherwise it returns false and the top-level document is active.
C7_EnterFrame ==
    last.op = "switch" =>
        /\ last.ret <=> Showing(last.page, last.loc) # {}
        /\ last.ret => ctx = Min(Showing(last.page, last.loc))
        /\ ~last.ret => ctx = 0

\* C7 witness: called inside the first iframe, which does not show the target,
\* while the second one does
C7_Witness ==
    /\ last.op = "switch"
    /\ last.from = 1
    /\ last.ret
    /\ ctx = 2

----------------------------------------------------------------------------
(* The flow: CheckoutTest.run drives the page object over the pages the     *)
(* browser renders.                                                         *)

\* TestConfig.CUSTOMER_DATA and the descriptors of fill_customer_data, lines 389-411
CustomerDescriptor(op) ==
    CASE op = "email" ->
            [labels |-> EmailLabels, keywords |-> EmailKeywords,
             value |-> <<"t", "e", "s", "t", "u", "s", "e", "r", "@", "e", "x", "a", "m", "p", "l", "e", ".", "c", "o", "m">>]
      [] op = "first_name" ->
            [labels |-> <<<<"V", "o", "r", "n", "a", "m", "e">>>>, keywords |-> <<<<"v", "o", "r", "n", "a", "m", "e">>, <<"f", "i", "r", "s", "t">>>>,
             value |-> <<"M", "a", "x">>]
      [] op = "last_name" ->
            [labels |-> <<<<"N", "a", "c", "h", "n", "a", "m", "e">>>>, keywords |-> <<<<"n", "a", "c", "h", "n", "a", "m", "e">>, <<"l", "a", "s", "t">>>>,
             value |-> <<"M", "u", "s", "t", "e", "r", "m", "a", "n", "n">>]
      [] op = "zip_code" ->
            [labels |-> <<<<"P", "L", "Z">>, <<"P", "o", "s", "t", "l", "e", "i", "t", "z", "a", "h", "l">>>>, keywords |-> <<<<"p", "l", "z">>, <<"z", "i", "p">>>>,
             value |-> <<"1", "2", "3", "4", "5">>]
      [] op = "city" ->
            [labels |-> <<<<"O", "r", "t">>, <<"S", "t", "a", "d", "t">>>>, keywords |-> <<<<"c", "i", "t", "y">>, <<"o", "r", "t">>>>,
             value |-> <<"B", "e", "r", "l", "i", "n">>]
      [] op = "street" ->
            [labels |-> <<<<"S", "t", "r", "a", "ß", "e", ",", " ", "H", "a", "u", "s", "n", "u", "m", "m", "e", "r">>, <<"A", "d", "r", "e", "s", "s", "e">>>>,
             keywords |-> <<<<"s", "t", "r", "e", "e", "t">>, <<"a", "d", "r", "e", "s", "s", "e">>>>, value |-> <<"T", "e", "s", "t", "s", "t", "r", "a", "ß", "e", " ", "2">>]
      [] op = "holder" ->
            [labels |-> <<<<"K", "a", "r", "t", "e", "n", "i", "n", "h", "a", "b", "e", "r">>, <<"K", "a", "r", "t", "e", "n", "i", "n", "h", "a", "b", "e", "r", "/", "i", "n">>, <<"N", "a", "m", "e", " ", "a", "u", "f", " ", "K", "a", "r", "t", "e">>>>,
             keywords |-> <<<<"k", "a", "r", "t", "e", "n", "i", "n", "h", "a", "b", "e", "r">>, <<"c", "a", "r", "d", "h", "o", "l", "d", "e", "r">>, <<"h", "o", "l", "d", "e", "r">>, <<"n", "a", "m", "e">>>>,
             value |-> <<"M", "a", "x", " ", "M", "u", "s", "t", "e", "r", "m", "a", "n", "n">>]

\* fill_customer_data, line 397: the labels tried for the salutation
SalutationLabels == <<<<"A", "n", "r", "e", "d", "e">>, <<"T", "i", "t", "e", "l">>, <<"A", "n", "r", "e", "d", "e", "/", "T", "i", "t", "e", "l">>>>

\* fill_customer_data, line 396: sal_map.get(data.get("salutation", ""), ...)
SalutationText == <<"H", "e", "r", "r">>

\* the order in which fill_customer_data fills the fields, and what follows it
CustomerOrder ==
    <<"email", "salutation", "first_name", "last_name", "zip_code", "city", "street",
      "country", "click_continue">>

After(order, op) == order[IndexOf(order, op) + 1]

\* the customer form, field by field: how the page may render each field
EmailRendered ==
    { <<[Blank EXCEPT !.tag = "label", !.text = <<"E", "-", "M", "a", "i", "l", "-", "A", "d", "r", "e", "s", "s", "e">>, !.for = s_em],
        [Blank EXCEPT !.tag = "input", !.id = s_em]>>,
      <<[Blank EXCEPT !.tag = "input", !.name = <<"c", "u", "s", "t", "o", "m", "e", "r", "E", "m", "a", "i", "l">>]>>,
      <<>> }

SalutationRendered ==
    { <<[Blank EXCEPT !.tag = "label", !.text = <<"A", "n", "r", "e", "d", "e">>],
        [Blank EXCEPT !.tag = "select", !.options = <<<<"H", "e", "r", "r">>, <<"F", "r", "a", "u">>>>]>>,
      <<[Blank EXCEPT !.tag = "label", !.text = <<"T", "i", "t", "e", "l">>, !.for = <<"s", "a", "l">>],
        [Blank EXCEPT !.tag = "div", !.id = <<"s", "a", "l">>],
        [Blank EXCEPT !.tag = "div", !.role = s_option, !.text = <<"H", "e", "r", "r">>,
                      !.popup = TRUE, !.visible = FALSE]>>,
      <<[Blank EXCEPT !.tag = "label", !.text = <<"T", "i", "t", "e", "l">>, !.for = <<"s", "a", "l">>],
        [Blank EXCEPT !.tag = "div", !.id = <<"s", "a", "l">>],
        [Blank EXCEPT !.tag = "li", !.text = <<" ", "H", "e", "r", "r">>,
                      !.popup = TRUE, !.visible = FALSE]>>,
      <<>> }

Labelled(label_text) ==
    { <<[Blank EXCEPT !.tag = "label", !.text = label_text],
        [Blank EXCEPT !.tag = "input"]>>,
      <<>> }

CountryRendered ==
    { <<[Blank EXCEPT !.tag = "label", !.text = <<"L", "a", "n", "d">>],
        [Blank EXCEPT !.tag = "select", !.options = <<<<"D", "e", "u", "t", "s", "c", "h", "l", "a", "n", "d">>, <<"S", "c", "h", "w", "e", "i", "z">>>>]>>,
      <<>> }

ContinueRendered ==
    { <<[Blank EXCEPT !.tag = "button", !.text = <<"W", "e", "i", "t", "e", "r", " ", "z", "u", "r", " ", "Z", "a", "h", "l", "u", "n", "g">>]>>,
      <<[Blank EXCEPT !.tag = "button", !.text = <<"W", "e", "i", "t", "e", "r">>, !.enabled = FALSE]>> }

\* the pages driver.get may show: nothing of the form, or the form
CustomerPages ==
    {[top |-> <<>>, frames |-> <<>>]} \cup
    {[top |-> e \o s \o f \o l \o z \o c \o a \o k \o b, frames |-> <<>>] :
        e \in EmailRendered, s \in SalutationRendered,
        f \in Labelled(<<"V", "o", "r", "n", "a", "m", "e">>), l \in Labelled(<<"N", "a", "c", "h", "n", "a", "m", "e">>),
        z \in Labelled(<<"P", "o", "s", "t", "l", "e", "i", "t", "z", "a", "h", "l">>), c \in Labelled(<<" ", "O", "r", "t", " ">>),
        a \in Labelled(<<"A", "d", "r", "e", "s", "s", "e">>), k \in CountryRendered, b \in ContinueRendered}

NoPage == [top |-> <<>>, frames |-> <<>>]

\* the page the checkout URL of create_transaction leads to
s_checkout_url == <<"h", "t", "t", "p", "s", ":", "/", "/", "c", "h", "e", "c", "k", "o", "u", "t", "/", "p", "a", "y">>

Init ==
    /\ page = NoPage
    /\ ctx = 0
    /\ pc = "setup"
    /\ log = <<>>
    /\ driver = "none"
    /\ url = <<>>
    /\ clock = 0
    /\ end = 0
    /\ result = <<>>
    /\ exc = "none"
    /\ in_iframe = FALSE
    /\ redirected = FALSE
    /\ last = NoCall

\* an entry of the log: a page method called by run, its return or its raise,
\* an interaction inside a method ("field", "click", "probe", "leave"), or a step
\* of run's except and finally clauses
Ev(kind, op, ok) == [kind |-> kind, op |-> op, ok |-> ok, ctx |-> ctx]

\* an exception leaves the try block of run, lines 539-601
Raise(events) ==
    /\ log' = log \o events
    /\ exc' = "error"
    /\ pc' = "except"

\* CheckoutTest.setup, lines 511-528
Setup ==
    /\ pc = "setup"
    /\ \/ /\ driver' = "open"
          /\ pc' = "authenticate"
          /\ UNCHANGED <<log, exc>>
       \/ /\ Raise(<<>>)
          /\ UNCHANGED driver
    /\ UNCHANGED <<page, ctx, url, clock, end, result, in_iframe, redirected, last>>

\* run, lines 546 and 552: ApiClient.authenticate, ApiClient.create_transaction
ApiCall ==
    /\ pc \in {"authenticate", "create_transaction"}
    /\ \/ /\ pc' = IF pc = "authenticate" THEN "create_transaction" ELSE "get"
          /\ UNCHANGED <<log, exc>>
       \/ Raise(<<>>)
    /\ UNCHANGED <<page, ctx, driver, url, clock, end, result, in_iframe, redirected, last>>

\* run, line 559: driver.get(checkout_url)
Get ==
    /\ pc = "get"
    /\ \/ /\ page' \in CustomerPages
          /\ url' = s_checkout_url
          /\ pc' = "wait_for_customer_form"
          /\ UNCHANGED <<log, exc>>
       \/ /\ Raise(<<>>)
          /\ UNCHANGED <<page, url>>
    /\ UNCHANGED <<ctx, driver, clock, end, result, in_iframe, redirected, last>>

\* CheckoutPage.wait_for_customer_form, lines 378-384
WaitForCustomerForm ==
    /\ pc = "wait_for_customer_form"
    /\ IF Present(Doc(page, ctx), [by |-> "form_marker", v |-> <<>>])
       THEN /\ log' = log \o <<Ev("call", "wait_for_customer_form", TRUE),
                               Ev("return", "wait_for_customer_form", TRUE),
                               Ev("call", "fill_customer_data", TRUE)>>
            /\ pc' = "email"
            /\ UNCHANGED exc
       ELSE Raise(<<Ev("call", "wait_for_customer_form", TRUE),
                    Ev("raise", "wait_for_customer_form", FALSE)>>)
    /\ UNCHANGED <<page, ctx, driver, url, clock, end, result, in_iframe, redirected, last>>

\* _enter_any for a field of its descriptor f
EnterDescribed(d, f) == EnterAny(d, f.labels, f.keywords, f.value)

\* fill_customer_data: r is what _enter_any gave for the mandatory field op
CustomerFieldEntered(op, r) ==
    /\ page' = SetDoc(page, ctx, r.doc)
    /\ IF r.ok
       THEN /\ log' = Append(log, Ev("field", op, TRUE))
            /\ pc' = After(CustomerOrder, op)
            /\ UNCHANGED exc
       ELSE Raise(<<Ev("field", op, FALSE), Ev("raise", "fill_customer_data", FALSE)>>)

\* fill_customer_data, lines 389-393 and 407-411: a mandatory field through _enter_any
FillCustomerField(op) ==
    /\ pc = op
    /\ CustomerFieldEntered(op, EnterDescribed(Doc(page, ctx), CustomerDescriptor(op)))
    /\ UNCHANGED <<ctx, driver, url, clock, end, result, in_iframe, redirected, last>>

\* one label of the salutation or country: _by_label_select, then _select_by_text
TrySelect(d, lbl, text) == SelectByText(d, ByLabelSelect(d, lbl), text)

\* fill_customer_data, lines 397-403: for lbl in [...]: try ... break / except: continue;
\* SelectOrNext: r is what the attempt of label k gave
RECURSIVE SelectLoop(_, _, _, _), SelectOrNext(_, _, _, _)
SelectLoop(d, labels, text, k) ==
    IF k > Len(labels) THEN Failed(d)
    ELSE SelectOrNext(TrySelect(d, labels[k], text), labels, text, k)

SelectOrNext(r, labels, text, k) ==
    IF r.ok THEN r ELSE SelectLoop(r.doc, labels, text, k + 1)

\* fill_customer_data with a failed selection raised instead of swallowed
SelectionAborts(op, r, then) ==
    /\ page' = SetDoc(page, ctx, r.doc)
    /\ IF r.ok
       THEN /\ log' = Append(log, Ev("field", op, TRUE)) \o then
            /\ pc' = After(CustomerOrder, op)
            /\ UNCHANGED exc
       ELSE Raise(<<Ev("field", op, FALSE), Ev("raise", "fill_customer_data", FALSE)>>)

\* fill_customer_data: r is what the selection of the best-effort field op gave;
\* whatever it gave, the method goes on (except Exception: pass / continue)
SelectionTried(op, r, then) ==
    /\ page' = SetDoc(page, ctx, r.doc)
    /\ log' = Append(log, Ev("field", op, r.ok)) \o then
    /\ pc' = After(CustomerOrder, op)
    /\ UNCHANGED exc

\* fill_customer_data, lines 395-405: the salutation, failures swallowed
FillSalutation ==
    /\ pc = "salutation"
    /\ SelectionTried("salutation",
                      SelectLoop(Doc(page, ctx), SalutationLabels, SalutationText, 1), <<>>)
    /\ UNCHANGED <<ctx, driver, url, clock, end, result, in_iframe, redirected, last>>

\* fill_customer_data, lines 413-419: the country, failures swallowed; the method returns
FillCountry ==
    /\ pc = "country"
    /\ SelectionTried("country",
                      TrySelect(Doc(page, ctx), <<"L", "a", "n", "d">>, <<"D", "e", "u", "t", "s", "c", "h", "l", "a", "n", "d">>),
                      <<Ev("return", "fill_customer_data", TRUE)>>)
    /\ UNCHANGED <<ctx, driver, url, clock, end, result, in_iframe, redirected, last>>

\* the payment form: how the page may render the card holder, the card fields
\* (in the top-level document or inside an iframe) and the buttons
HolderRendered ==
    { <<[Blank EXCEPT !.tag = "label", !.text = <<"K", "a", "r", "t", "e", "n", "i", "n", "h", "a", "b", "e", "r">>],
        [Blank EXCEPT !.tag = "input"]>>,
      <<>> }

ExpiryInput == [Blank EXCEPT !.tag = "input", !.name = s_expiry, !.placeholder = <<"M", "M", "/", "Y", "Y">>]

CardForm == <<CardNumberInput, ExpiryInput, [Blank EXCEPT !.tag = "input", !.id = s_cardCvv]>>

CardFormSplit ==
    <<CardNumberInput, [ExpiryInput EXCEPT !.visible = FALSE],
      [Blank EXCEPT !.tag = "input", !.id = s_exp_date],
      [Blank EXCEPT !.tag = "input", !.id = s_expiryYear], CvcInput>>

CardFormNoCvc == <<CardNumberInput, ExpiryInput>>

CardFormNoYear ==
    <<CardNumberInput, [ExpiryInput EXCEPT !.visible = FALSE],
      [Blank EXCEPT !.tag = "input", !.id = s_exp_date], CvcInput>>

CardDocuments == {<<>>, CardForm, CardFormSplit, CardFormNoCvc}

PayNowRendered ==
    { <<[Blank EXCEPT !.tag = "button", !.text = <<"J", "e", "t", "z", "t", " ", "z", "a", "h", "l", "e", "n">>]>>, <<>> }

SubmitRendered ==
    { <<[Blank EXCEPT !.tag = "button", !.type = <<"S", "u", "b", "m", "i", "t">>, !.text = <<"K", "a", "u", "f", "e", "n">>]>>,
      <<[Blank EXCEPT !.tag = "a", !.text = <<"B", "e", "z", "a", "h", "l", "e", "n">>]>>,
      <<>> }

PaymentPages ==
    {[top |-> h \o c \o b \o s, frames |-> fs] :
        h \in HolderRendered, c \in {<<>>, CardForm, CardFormNoYear},
        b \in PayNowRendered, s \in SubmitRendered,
        fs \in UNION {[1..n -> CardDocuments] : n \in 0..MaxFrames}}

\* the page after the submission: nothing, a status element, a status element
\* below a heading, a status word in an element that is not displayed, alone
\* or next to a displayed one
ResultPages ==
    {[top |-> d, frames |-> <<>>] :
        d \in { <<>>,
                <<[Blank EXCEPT !.tag = "div", !.text = <<" ", " ", "Z", "a", "h", "l", "u", "n", "g", " ", "e", "r", "f", "o", "l", "g", "r", "e", "i", "c", "h", " ">>]>>,
                <<[Blank EXCEPT !.tag = "h1", !.text = <<"S", "h", "o", "p">>],
                  [Blank EXCEPT !.tag = "div", !.text = <<"P", "a", "y", "m", "e", "n", "t", " ", "f", "a", "i", "l", "e", "d">>]>>,
                <<[Blank EXCEPT !.tag = "div", !.text = <<"s", "u", "c", "c", "e", "s", "s">>, !.visible = FALSE]>>,
                <<[Blank EXCEPT !.tag = "div", !.text = <<"B", "i", "t", "t", "e", " ", "w", "a", "r", "t", "e", "n">>],
                  [Blank EXCEPT !.tag = "div", !.text = <<"s", "u", "c", "c", "e", "s", "s">>, !.visible = FALSE]>> }}

\* the URLs the browser may be at after the submission; create_transaction,
\* lines 168-170, names the return URLs
Urls ==
    { s_checkout_url,
      <<"h", "t", "t", "p", "s", ":", "/", "/", "e", "x", "a", "m", "p", "l", "e", ".", "o", "r", "g", "/", "S", "U", "C", "C", "E", "S", "S">>,
      <<"h", "t", "t", "p", "s", ":", "/", "/", "e", "x", "a", "m", "p", "l", "e", ".", "o", "r", "g", "/", "e", "r", "r", "o", "r", "?", "x", "=", "1">>,
      <<"h", "t", "t", "p", "s", ":", "/", "/", "e", "x", "a", "m", "p", "l", "e", ".", "o", "r", "g", "/", "F", "A", "I", "L", "U", "R", "E">>,
      <<"h", "t", "t", "p", "s", ":", "/", "/", "e", "x", "a", "m", "p", "l", "e", ".", "o", "r", "g", "/", "A", "b", "o", "r", "t">>,
      <<"h", "t", "t", "p", "s", ":", "/", "/", "e", "x", "a", "m", "p", "l", "e", ".", "o", "r", "g", "/", "E", "R", "R", "O", "R", "?", "f", "r", "o", "m", "=", "s", "u", "c", "c", "e", "s", "s">> }

\* click_continue with run going on to the payment form whatever the click gave
ContinueIgnored(ok) ==
    /\ log' = log \o <<Ev("call", "click_continue", TRUE),
                       Ev("click", "continue", ok),
                       Ev(IF ok THEN "return" ELSE "raise", "click_continue", ok)>>
    /\ page' \in PaymentPages
    /\ pc' = "screenshot_02"
    /\ UNCHANGED exc

\* click_continue: ok is what _click_button_by_text gave
ContinueClicked(ok) ==
    IF ok
    THEN /\ log' = log \o <<Ev("call", "click_continue", TRUE),
                            Ev("click", "continue", TRUE),
                            Ev("return", "click_continue", TRUE)>>
         /\ page' \in PaymentPages
         /\ pc' = "screenshot_02"
         /\ UNCHANGED exc
    ELSE /\ Raise(<<Ev("call", "click_continue", TRUE),
                    Ev("click", "continue", FALSE),
                    Ev("raise", "click_continue", FALSE)>>)
         /\ UNCHANGED page

\* CheckoutPage.click_continue, lines 421-422: the browser then shows the payment form
ClickContinue ==
    /\ pc = "click_continue"
    /\ ContinueClicked(ClickButtonByText(Doc(page, ctx),
                           <<<<"W", "e", "i", "t", "e", "r">>, <<"F", "o", "r", "t", "f", "a", "h", "r", "e", "n">>, <<"C", "o", "n", "t", "i", "n", "u", "e">>, <<"N", "e", "x", "t">>>>).ok)
    /\ UNCHANGED <<ctx, driver, url, clock, end, result, in_iframe, redirected, last>>

\* run, lines 569 and 577: driver.save_screenshot
Screenshot ==
    /\ pc \in {"screenshot_02", "screenshot_03"}
    /\ \/ /\ pc' = IF pc = "screenshot_02" THEN "holder" ELSE "submit"
          /\ UNCHANGED <<log, exc>>
       \/ Raise(<<>>)
    /\ UNCHANGED <<page, ctx, driver, url, clock, end, result, in_iframe, redirected, last>>

\* fill_credit_card: r is what _enter_any gave for the card holder
HolderEntered(r) ==
    /\ page' = SetDoc(page, ctx, r.doc)
    /\ IF r.ok
       THEN /\ log' = log \o <<Ev("call", "fill_credit_card", TRUE),
                               Ev("field", "holder", TRUE)>>
            /\ pc' = "probe"
            /\ UNCHANGED exc
       ELSE Raise(<<Ev("call", "fill_credit_card", TRUE),
                    Ev("field", "holder", FALSE),
                    Ev("raise", "fill_credit_card", FALSE)>>)

\* fill_credit_card, lines 427-432: the card holder through _enter_any
FillHolder ==
    /\ pc = "holder"
    /\ HolderEntered(EnterDescribed(Doc(page, ctx), CustomerDescriptor("holder")))
    /\ UNCHANGED <<ctx, driver, url, clock, end, result, in_iframe, redirected, last>>

\* fill_credit_card with the probe's frame left again at once
ProbedOutside(r) ==
    /\ in_iframe' = r.ret
    /\ ctx' = 0
    /\ log' = Append(log, [kind |-> "probe", op |-> "card_number", ok |-> r.ret,
                           ctx |-> 0])

\* fill_credit_card: r is what _switch_into_iframe_with gave
Probed(r) ==
    /\ in_iframe' = r.ret
    /\ ctx' = r.ctx
    /\ log' = Append(log, [kind |-> "probe", op |-> "card_number", ok |-> r.ret,
                           ctx |-> r.ctx])

\* fill_credit_card, line 448: in_iframe = self._switch_into_iframe_with(...)
Probe ==
    /\ pc = "probe"
    /\ Probed(SwitchIntoIframeWith(page, ctx, CardNumberLocator))
    /\ pc' = "card_number"
    /\ UNCHANGED <<page, driver, url, clock, end, result, exc, redirected, last>>

\* TestConfig.CREDIT_CARD and the locators of fill_credit_card, lines 450-458;
\* f"{card['expiry_month']}/{card['expiry_year'][-2:]}" is "12/26"
CardEntry(op) ==
    CASE op = "card_number" -> [loc |-> CardNumberLocator, value |-> <<"4", "6", "3", "5", "4", "4", "0", "0", "0", "0", "0", "0", "2", "2", "9", "8">>]
      [] op = "expiry" -> [loc |-> [by |-> "expiry", v |-> <<>>], value |-> <<"1", "2", "/", "2", "6">>]
      [] op = "expiry_month" -> [loc |-> [by |-> "id", v |-> s_exp_date], value |-> <<"1", "2">>]
      [] op = "expiry_year" -> [loc |-> [by |-> "id", v |-> s_expiryYear], value |-> <<"2", "0", "2", "6">>]
      [] op = "cvc" -> [loc |-> [by |-> "cvc", v |-> <<>>], value |-> <<"1", "2", "3">>]

\* where fill_credit_card goes after an entry that succeeded
CardNext(op) ==
    CASE op = "card_number" -> "expiry"
      [] op = "expiry" -> "cvc"
      [] op = "expiry_month" -> "expiry_year"
      [] op = "expiry_year" -> "cvc"
      [] op = "cvc" -> "leave"

\* _enter_text for a card entry e
EnterCard(d, e) == EnterText(d, e.loc, e.value)

\* fill_credit_card with a failed entry swallowed
CardFieldSwallowed(op, r) ==
    /\ page' = SetDoc(page, ctx, r.doc)
    /\ log' = Append(log, Ev("field", op, r.ok))
    /\ pc' = CardNext(op)
    /\ UNCHANGED exc

\* fill_credit_card: r is what _enter_text gave for the entry op that must succeed
CardFieldEntered(op, r) ==
    /\ page' = SetDoc(page, ctx, r.doc)
    /\ IF r.ok
       THEN /\ log' = Append(log, Ev("field", op, TRUE))
            /\ pc' = CardNext(op)
            /\ UNCHANGED exc
       ELSE Raise(<<Ev("field", op, FALSE), Ev("raise", "fill_credit_card", FALSE)>>)

\* fill_credit_card, lines 450, 455-458: an entry through _enter_text that must succeed
FillCardField(op) ==
    /\ pc = op
    /\ CardFieldEntered(op, EnterCard(Doc(page, ctx), CardEntry(op)))
    /\ UNCHANGED <<ctx, driver, url, clock, end, result, in_iframe, redirected, last>>

\* fill_credit_card without lines 454-456: a failed combined expiry is raised
ExpiryRequired(r) ==
    /\ page' = SetDoc(page, ctx, r.doc)
    /\ IF r.ok
       THEN /\ log' = Append(log, Ev("field", "expiry", TRUE))
            /\ pc' = CardNext("expiry")
       ELSE /\ log' = log \o <<Ev("field", "expiry", FALSE),
                                Ev("raise", "fill_credit_card", FALSE)>>
            /\ pc' = "except"

\* fill_credit_card: r is what _enter_text gave for the combined expiry
ExpiryEntered(r) ==
    /\ page' = SetDoc(page, ctx, r.doc)
    /\ log' = Append(log, Ev("field", "expiry", r.ok))
    /\ pc' = IF r.ok THEN CardNext("expiry") ELSE "expiry_month"

\* fill_credit_card, lines 452-454: the combined expiry; on failure the split fields
FillExpiry ==
    /\ pc = "expiry"
    /\ ExpiryEntered(EnterCard(Doc(page, ctx), CardEntry("expiry")))
    /\ UNCHANGED <<ctx, driver, url, clock, end, result, exc, in_iframe, redirected, last>>

\* fill_credit_card, lines 460-463: leave the iframe if one was entered; the method returns
LeaveAfterCard ==
    /\ pc = "leave"
    /\ IF in_iframe
       THEN /\ ctx' = LeaveIframe(ctx)
            /\ log' = log \o <<[kind |-> "leave", op |-> "iframe", ok |-> TRUE,
                                ctx |-> LeaveIframe(ctx)],
                               [kind |-> "return", op |-> "fill_credit_card", ok |-> TRUE,
                                ctx |-> LeaveIframe(ctx)]>>
       ELSE /\ log' = Append(log, Ev("return", "fill_credit_card", TRUE))
            /\ UNCHANGED ctx
    /\ pc' = "pay_now"
    /\ UNCHANGED <<page, driver, url, clock, end, result, exc, in_iframe, redirected, last>>

\* click_continue_to_payment: ok is what _click_button_by_text gave
PayNowClicked(ok) ==
    IF ok
    THEN /\ log' = log \o <<Ev("call", "click_continue_to_payment", TRUE),
                            Ev("click", "pay_now", TRUE),
                            Ev("return", "click_continue_to_payment", TRUE)>>
         /\ pc' = "screenshot_03"
         /\ UNCHANGED exc
    ELSE Raise(<<Ev("call", "click_continue_to_payment", TRUE),
                 Ev("click", "pay_now", FALSE),
                 Ev("raise", "click_continue_to_payment", FALSE)>>)

\* CheckoutPage.click_continue_to_payment, lines 465-466
ClickPayNow ==
    /\ pc = "pay_now"
    /\ PayNowClicked(ClickButtonByText(Doc(page, ctx), <<<<"J", "e", "t", "z", "t", " ", "z", "a", "h", "l", "e", "n">>>>).ok)
    /\ UNCHANGED <<page, ctx, driver, url, clock, end, result, in_iframe, redirected, last>>

\* click_submit clicking by text whatever the click by type gave
SubmitClicksBoth(by_type, by_text) ==
    <<Ev("click", "submit_type", by_type), Ev("click", "submit_text", by_text)>>

\* click_submit: the clicks made, by type and, when that failed, by text
SubmitClicks(by_type, by_text) ==
    IF by_type THEN <<Ev("click", "submit_type", TRUE)>>
    ELSE <<Ev("click", "submit_type", FALSE), Ev("click", "submit_text", by_text)>>

\* click_submit: ok when one of the two clicks was made
SubmitClicked(ok, clicks) ==
    IF ok
    THEN /\ log' = log \o <<Ev("call", "click_submit", TRUE)>> \o clicks
                        \o <<Ev("return", "click_submit", TRUE)>>
         /\ page' \in ResultPages
         /\ url' \in Urls
         /\ pc' = "wait_for_result"
         /\ UNCHANGED exc
    ELSE /\ Raise(<<Ev("call", "click_submit", TRUE)>> \o clicks
                        \o <<Ev("raise", "click_submit", FALSE)>>)
         /\ UNCHANGED <<page, url>>

\* click_submit, lines 469-472: try by type, except by text
SubmitTried(by_type, by_text) ==
    SubmitClicked(by_type \/ by_text, SubmitClicks(by_type, by_text))

\* CheckoutPage.click_submit, lines 468-472: by type, on failure by text; the
\* browser then leaves the payment form
ClickSubmit ==
    /\ pc = "submit"
    /\ SubmitTried(ClickButtonByType(Doc(page, ctx), <<s_submit>>).ok,
                   ClickButtonByText(Doc(page, ctx),
                                     <<<<"B", "e", "z", "a", "h", "l", "e", "n">>, <<"P", "a", "y">>, <<"Z", "a", "h", "l", "u", "n", "g">>>>).ok)
    /\ UNCHANGED <<ctx, driver, clock, end, result, in_iframe, redirected, last>>

----------------------------------------------------------------------------
(* Outcome classification: wait_for_result polls the URL until its deadline  *)
(* while the clock advances and the browser follows redirects.               *)

\* wait_for_result's timeout (40 s in run's call), counted in polling intervals
DeadlineTicks == 3

\* time.sleep(0.2): one polling interval
PollTicks == 1

r_SUCCESS_URL == <<"S", "U", "C", "C", "E", "S", "S", "_", "U", "R", "L">>
r_ERROR_URL == <<"E", "R", "R", "O", "R", "_", "U", "R", "L">>
r_FAILURE_URL == <<"F", "A", "I", "L", "U", "R", "E", "_", "U", "R", "L">>
r_UNKNOWN == <<"U", "N", "K", "N", "O", "W", "N">>

\* no URL-based outcome
NoVerdict == <<>>

UrlOutcomes == {r_SUCCESS_URL, r_ERROR_URL, r_FAILURE_URL}

\* wait_for_result, lines 479-487: the chain of keyword tests on the string cur
Classify(cur) ==
    IF Contains(cur, <<"S", "U", "C", "C", "E", "S", "S">>) THEN r_SUCCESS_URL
    ELSE IF Contains(cur, <<"E", "R", "R", "O", "R">>) THEN r_ERROR_URL
    ELSE IF Contains(cur, <<"F", "A", "I", "L", "U", "R", "E">>) \/ Contains(cur, <<"A", "B", "O", "R", "T">>) THEN r_FAILURE_URL
    ELSE NoVerdict

\* wait_for_result, lines 478-487, with the upper-casing of line 478 left out
ClassifyUrlAsIs(u) == Classify(u)

\* wait_for_result, lines 478-487: what one poll makes of the URL
ClassifyUrl(u) == Classify(PyUpper(u))

\* the URL holds one of the outcome keywords, in any case
HasKeyword(u) ==
    \E w \in {<<"S", "U", "C", "C", "E", "S", "S">>, <<"E", "R", "R", "O", "R">>, <<"F", "A", "I", "L", "U", "R", "E">>, <<"A", "B", "O", "R", "T">>} : Contains(PyUpper(u), w)

Waiting == pc \in {"while", "poll", "sleep"}

\* wait_for_result, lines 475-476: end = time.time() + timeout
WaitForResult ==
    /\ pc = "wait_for_result"
    /\ end' = clock + DeadlineTicks
    /\ redirected' = (HasKeyword(url) /\ clock < clock + DeadlineTicks)
    /\ log' = Append(log, Ev("call", "wait_for_result", TRUE))
    /\ pc' = "while"
    /\ UNCHANGED <<page, ctx, driver, url, clock, result, exc, in_iframe, last>>

\* wait_for_result polling without the deadline of line 477
WhileTrue ==
    /\ pc = "while"
    /\ pc' = "poll"
    /\ UNCHANGED <<page, ctx, log, driver, url, clock, end, result, exc, in_iframe,
                   redirected, last>>

\* wait_for_result, line 477: while time.time() < end
While ==
    /\ pc = "while"
    /\ pc' = IF clock < end THEN "poll" ELSE "text_wait"
    /\ UNCHANGED <<page, ctx, log, driver, url, clock, end, result, exc, in_iframe,
                   redirected, last>>

\* wait_for_result, lines 479-487: return the verdict of the poll, if there is one
Polled(verdict) ==
    IF verdict # NoVerdict
    THEN /\ result' = verdict
         /\ log' = Append(log, Ev("return", "wait_for_result", TRUE))
         /\ pc' = "api_status"
    ELSE /\ pc' = "sleep"
         /\ UNCHANGED <<result, log>>

\* wait_for_result, lines 478-487: read the URL; return on a keyword
Poll ==
    /\ pc = "poll"
    /\ Polled(ClassifyUrl(url))
    /\ UNCHANGED <<page, ctx, driver, url, clock, end, exc, in_iframe, redirected, last>>

\* wait_for_result, line 488: time.sleep(0.2) takes one polling interval, or one
\* tick more when the process is scheduled late
Sleep ==
    /\ pc = "sleep"
    /\ \E late \in {0, 1} : clock' = clock + PollTicks + late
    /\ pc' = "while"
    /\ UNCHANGED <<page, ctx, log, driver, url, end, result, exc, in_iframe,
                   redirected, last>>

\* the browser follows a redirect while wait_for_result runs
UrlChange ==
    /\ Waiting
    /\ url' \in Urls \ {url}
    /\ redirected' = (HasKeyword(url') /\ (redirected \/ clock < end))
    /\ UNCHANGED <<page, ctx, pc, log, driver, clock, end, result, exc, in_iframe, last>>

\* the XPath string-value of the root element of document d: the text of all
\* its elements, displayed or not, in document order
RECURSIVE StringValue(_)
StringValue(d) == IF d = <<>> THEN <<>> ELSE Head(d).text \o StringValue(Tail(d))

\* the root element of document d: the first element //* selects
Root(d) == [Blank EXCEPT !.tag = "html", !.text = StringValue(d)]

\* one more line of rendered text before the lines that follow it
JoinLines(line, rest) ==
    IF line = <<>> THEN rest
    ELSE IF rest = <<>> THEN line
    ELSE line \o <<"\n">> \o rest

\* WebElement.text of the root element of d: the text of its displayed
\* elements, a line each
RECURSIVE RenderedText(_)
RenderedText(d) ==
    IF d = <<>> THEN <<>>
    ELSE JoinLines(IF Head(d).visible THEN NormalizeSpace(Head(d).text) ELSE <<>>,
                   RenderedText(Tail(d)))

\* wait_for_result, lines 490-493: the first element in document order whose
\* string-value holds a status word is the root; (el.text or "").strip() of it
\* when the wait returned it, the empty string when the wait timed out
StatusOf(d, root) ==
    IF IsStatus(root) /\ root.visible THEN Strip(RenderedText(d)) ELSE <<>>

StatusText(d) == StatusOf(d, Root(d))

\* wait_for_result returning the text as it is, without the default of line 495
OrNothing(txt) == txt

\* wait_for_result, line 495: txt or "UNKNOWN"
OrUnknown(txt) == IF txt # <<>> THEN txt ELSE r_UNKNOWN

\* wait_for_result, lines 489-497: one bounded wait for a status element
TextWait ==
    /\ pc = "text_wait"
    /\ result' = OrUnknown(StatusText(Doc(page, ctx)))
    /\ log' = log \o <<Ev("text_wait", "status", TRUE), Ev("return", "wait_for_result", TRUE)>>
    /\ pc' = "api_status"
    /\ UNCHANGED <<page, ctx, driver, url, clock, end, exc, in_iframe, redirected, last>>

\* run, lines 596-599: ApiClient.get_transaction_status
ApiStatus ==
    /\ pc = "api_status"
    /\ \/ /\ pc' = "assert"
          /\ UNCHANGED <<log, exc>>
       \/ Raise(<<>>)
    /\ UNCHANGED <<page, ctx, driver, url, clock, end, result, in_iframe, redirected, last>>

\* run, line 601: assert result in {"SUCCESS_URL", "ERROR_URL", "FAILURE_URL", "UNKNOWN"}
AssertResult ==
    /\ pc = "assert"
    /\ IF result \in UrlOutcomes \cup {r_UNKNOWN}
       THEN /\ pc' = "teardown"
            /\ UNCHANGED <<log, exc>>
       ELSE Raise(<<>>)
    /\ UNCHANGED <<page, ctx, driver, url, clock, end, result, in_iframe, redirected, last>>

\* run without lines 604-610: the error is re-raised with no screenshot
ExceptWithoutEvidence ==
    /\ pc = "except"
    /\ pc' = "teardown"
    /\ UNCHANGED <<page, ctx, driver, url, clock, end, result, exc, in_iframe, redirected, last, log>>

\* run, lines 602-611: the error screenshot, attempted when there is a driver
Except ==
    /\ pc = "except"
    /\ IF driver = "open"
       THEN \E ok \in BOOLEAN : log' = Append(log, Ev("error_screenshot", "run", ok))
       ELSE UNCHANGED log
    /\ pc' = "teardown"
    /\ UNCHANGED <<page, ctx, driver, url, clock, end, result, exc, in_iframe, redirected, last>>

\* run, lines 612-613, and CheckoutTest.teardown, lines 530-536: driver.quit()
\* is not guarded by an except clause, so what it raises leaves the finally
\* clause in place of the exception that was in flight
Teardown ==
    /\ pc = "teardown"
    /\ IF driver = "open"
       THEN /\ driver' = "quit"
            /\ \E ok \in BOOLEAN :
                  /\ log' = Append(log, Ev("teardown", "quit", ok))
                  /\ exc' = IF ok THEN exc ELSE "quit_error"
                  /\ pc' = IF ok /\ exc = "none" THEN "done" ELSE "raised"
       ELSE /\ pc' = IF exc = "none" THEN "done" ELSE "raised"
            /\ UNCHANGED <<driver, log, exc>>
    /\ UNCHANGED <<page, ctx, url, clock, end, result, in_iframe, redirected, last>>

MandatoryCustomerFields == {"email", "first_name", "last_name", "zip_code", "city", "street"}

\* the steps of the test process, one after the other
Program ==
    \/ Setup
    \/ ApiCall
    \/ Get
    \/ WaitForCustomerForm
    \/ \E op \in MandatoryCustomerFields : FillCustomerField(op)
    \/ FillSalutation
    \/ FillCountry
    \/ ClickContinue
    \/ Screenshot
    \/ FillHolder
    \/ Probe
    \/ \E op \in {"card_number", "expiry_month", "expiry_year", "cvc"} : FillCardField(op)
    \/ FillExpiry
    \/ LeaveAfterCard
    \/ ClickPayNow
    \/ ClickSubmit
    \/ WaitForResult
    \/ While
    \/ Poll
    \/ Sleep
    \/ TextWait
    \/ ApiStatus
    \/ AssertResult
    \/ Except
    \/ Teardown

\* the test process and the browser it watches
Next ==
    \/ Program
    \/ UrlChange

Spec == Init /\ [][Next]_vars

\* the positions of the test process: the statements of run and of the page
\* object's methods it calls
Positions ==
    {"setup", "authenticate", "create_transaction", "get", "wait_for_customer_form",
     "email", "salutation", "first_name", "last_name", "zip_code", "city", "street",
     "country", "click_continue", "screenshot_02", "holder", "probe", "card_number",
     "expiry", "expiry_month", "expiry_year", "cvc", "leave", "pay_now",
     "screenshot_03", "submit", "wait_for_result", "while", "poll", "sleep",
     "text_wait", "api_status", "assert", "except", "teardown", "done", "raised"}

\* the test process leaves the position it is at: every step of Program does
Proceeds == pc \notin {"done", "raised"} /\ pc' \in Positions \ {pc}

\* the test is one thread of control: until it has ended it takes its next
\* step, each bounded wait, sleep and driver call returning after a finite
\* time; the browser may be redirected at any time or never
SpecFair == Spec /\ WF_pc(Proceeds)

----------------------------------------------------------------------------
(* Claims about the flow.                                                    *)

\* the steps of the flow, in the order run calls them (lines 561-590)
Steps ==
    <<"wait_for_customer_form", "fill_customer_data", "click_continue",
      "fill_credit_card", "click_continue_to_payment", "click_submit", "wait_for_result">>

IsStepEvent(e) == e.kind \in {"call", "return", "raise"}

\* the calls, returns and raises of the steps, as the log holds them
StepEvents ==
    LET events == SelectSeq(log, IsStepEvent)
    IN  [i \in 1..Len(events) |-> [kind |-> events[i].kind, op |-> events[i].op]]

\* every step called once and returned from, one after the other
Straight ==
    [k \in 1..(2 * Len(Steps)) |->
        [kind |-> IF k % 2 = 1 THEN "call" ELSE "return", op |-> Steps[(k + 1) \div 2]]]

\* C1: the steps run in the fixed linear order: what was called and returned so
\* far is a beginning of the straight sequence call 1, return 1, call 2, ...,
\* or such a beginning with the raise of the step called last in the place of
\* its return; so a step starts only after its predecessor returned, none is
\* skipped, none runs twice.
C1_LinearOrder ==
    LET t == StepEvents
    IN  /\ Len(t) <= Len(Straight)
        /\ \A k \in 1..Len(t) :
              \/ t[k] = Straight[k]
              \/ /\ k = Len(t)
                 /\ k % 2 = 0
                 /\ t[k] = [kind |-> "raise", op |-> Steps[k \div 2]]

\* C1 witness: a run that went through all the steps
C1_Witness == pc = "done" /\ StepEvents = Straight

\* the failure of a mandatory step: the customer form wait, a mandatory customer
\* field, the continue click, card holder, card number, CVV, the pay-now click,
\* the submit (its second and last click)
MandatoryFailure(e) ==
    /\ ~e.ok
    /\ \/ e.kind = "raise" /\ e.op = "wait_for_customer_form"
       \/ e.kind = "field" /\ e.op \in MandatoryCustomerFields \cup {"holder", "card_number", "cvc"}
       \/ e.kind = "click" /\ e.op \in {"continue", "pay_now", "submit_text"}

\* C2: once a mandatory step has failed, the error is raised at once: nothing is
\* logged after the failure but the raise, the error screenshot and the teardown,
\* no mandatory step fails a second time, the error is pending, and run is in
\* its except/finally clauses or has ended raising.
C2_FailFast ==
    \A i \in 1..Len(log) :
        MandatoryFailure(log[i]) =>
            /\ \A j \in (i + 1)..Len(log) :
                  log[j].kind \in {"raise", "error_screenshot", "teardown"}
            /\ \A j \in 1..Len(log) : j # i => ~MandatoryFailure(log[j])
            /\ exc # "none"
            /\ pc \in {"except", "teardown", "raised"}

\* C2 witness: the CVV entry failed and the run has ended raising
C2_Witness ==
    /\ pc = "raised"
    /\ \E i \in 1..Len(log) : log[i].kind = "field" /\ log[i].op = "cvc" /\ ~log[i].ok

\* C3: in fill_customer_data a failed salutation is followed by the first name
\* and a failed country by the return of the step, while a failed mandatory
\* field is followed by the raise of the step and by no other field.
C3_BestEffortFields ==
    \A i \in 1..Len(log) :
        (log[i].kind = "field" /\ ~log[i].ok) =>
            /\ log[i].op = "salutation" =>
                  IF i < Len(log)
                  THEN log[i + 1].kind = "field" /\ log[i + 1].op = "first_name"
                  ELSE pc = "first_name" /\ exc = "none"
            /\ log[i].op = "country" =>
                  /\ i < Len(log)
                  /\ log[i + 1].kind = "return"
                  /\ log[i + 1].op = "fill_customer_data"
            /\ log[i].op \in MandatoryCustomerFields =>
                  /\ i < Len(log)
                  /\ log[i + 1].kind = "raise"
                  /\ log[i + 1].op = "fill_customer_data"
                  /\ \A j \in (i + 1)..Len(log) : log[j].kind # "field"

\* C3 witness: salutation and country both failed and the step returned
C3_Witness ==
    \E i, j \in 1..Len(log) :
        /\ log[i].kind = "field" /\ log[i].op = "salutation" /\ ~log[i].ok
        /\ log[j].kind = "field" /\ log[j].op = "country" /\ ~log[j].ok
        /\ log[Len(log)].kind = "return" /\ log[Len(log)].op = "fill_customer_data"

CardFieldSteps == {"card_number", "expiry", "expiry_month", "expiry_year", "cvc", "leave"}

\* C8: when an iframe shows the card number, the probe returns true into the
\* first such iframe; the card entries after a probe that returned true are all
\* made in the probe's iframe, and the pay-now and submit clicks after it in the
\* top-level document.
C8_CardFieldsInFrame ==
    /\ (pc \in CardFieldSteps /\ Showing(page, CardNumberLocator) # {}) =>
           in_iframe /\ ctx = Min(Showing(page, CardNumberLocator))
    /\ \A i \in 1..Len(log) :
           (log[i].kind = "probe" /\ log[i].ok) =>
               /\ log[i].ctx # 0
               /\ \A j \in (i + 1)..Len(log) :
                     /\ log[j].kind = "field" => log[j].ctx = log[i].ctx
                     /\ log[j].kind = "click" => log[j].ctx = 0

\* C8 witness: after a probe that returned true the card number, the expiry and
\* the CVV were entered and the submit control was clicked
C8_Witness ==
    \E i \in 1..Len(log) :
        /\ log[i].kind = "probe" /\ log[i].ok
        /\ \A op \in {"card_number", "expiry", "cvc"} :
              \E j \in (i + 1)..Len(log) :
                  log[j].kind = "field" /\ log[j].op = op /\ log[j].ok
        /\ \E j \in (i + 1)..Len(log) : log[j].kind = "click" /\ log[j].op = "submit_type"

\* wait_for_result has returned
Returned ==
    \E i \in 1..Len(log) : log[i].kind = "return" /\ log[i].op = "wait_for_result"

\* C9: if the URL came to hold a keyword at some time before the deadline (and
\* held one from then on), wait_for_result returns a URL outcome, never the page text.
C9_UrlPrecedence == (Returned /\ redirected) => result \in UrlOutcomes

\* the URL holds the keyword w, whatever the case of its letters
ContainsCI(u, w) == Contains(PyLower(u), PyLower(w))

IsPollStep == pc = "poll" /\ pc' # "poll"

\* C10 as stated: at every poll a URL holding SUCCESS yields SUCCESS_URL, one
\* holding ERROR yields ERROR_URL, one holding FAILURE or ABORT yields
\* FAILURE_URL, whatever the case, and one holding none yields no URL outcome.
C10_EachKeyword ==
    [][IsPollStep =>
         /\ ContainsCI(url, <<"S", "U", "C", "C", "E", "S", "S">>) => result' = r_SUCCESS_URL
         /\ ContainsCI(url, <<"E", "R", "R", "O", "R">>) => result' = r_ERROR_URL
         /\ (ContainsCI(url, <<"F", "A", "I", "L", "U", "R", "E">>) \/ ContainsCI(url, <<"A", "B", "O", "R", "T">>)) => result' = r_FAILURE_URL
         /\ ~HasKeyword(url) => pc' = "sleep" /\ result' = result]_vars

\* C10 amended: at every poll the keywords are tested in the order SUCCESS,
\* ERROR, FAILURE or ABORT, whatever the case, and the first one the URL holds
\* decides the outcome; a URL holding none yields no URL outcome and the poll
\* is followed by the sleep.
C10_FirstKeyword ==
    [][IsPollStep =>
         IF ContainsCI(url, <<"S", "U", "C", "C", "E", "S", "S">>) THEN result' = r_SUCCESS_URL /\ pc' = "api_status"
         ELSE IF ContainsCI(url, <<"E", "R", "R", "O", "R">>) THEN result' = r_ERROR_URL /\ pc' = "api_status"
         ELSE IF ContainsCI(url, <<"F", "A", "I", "L", "U", "R", "E">>) \/ ContainsCI(url, <<"A", "B", "O", "R", "T">>)
              THEN result' = r_FAILURE_URL /\ pc' = "api_status"
         ELSE pc' = "sleep" /\ result' = result]_vars

\* C10 witness: a poll returned on a URL that holds two keywords, in lower case
\* the one that decided
C10_Witness ==
    /\ Returned
    /\ result = r_SUCCESS_URL
    /\ Contains(url, <<"E", "R", "R", "O", "R">>)
    /\ Contains(url, <<"s", "u", "c", "c", "e", "s", "s">>)

\* the text of the whole active document holds none of the status words
NoStatusWord == ~IsStatus([text |-> StringValue(Doc(page, ctx))])

\* the text wait was made: no poll before the deadline saw a URL keyword
TextWaited == \E i \in 1..Len(log) : log[i].kind = "text_wait"

C12_EveryOutcomeReachesDone ==
    [][/\ pc = "assert" => pc' = "teardown" /\ exc' = "none" /\ result' = result
       /\ result' # result =>
              /\ result = NoVerdict
              /\ pc' = "api_status"
              /\ log'[Len(log')] = Ev("return", "wait_for_result", TRUE)]_vars

Ended == pc \in {"done", "raised"}

\* the events of the log of the given kind
Events(kind) == {i \in 1..Len(log) : log[i].kind = kind}

\* C15: every run ends, done or raised, whatever the page shows and the browser
\* does; wait_for_result, once called, returns, after polling no longer than to
\* its deadline and one polling interval that began before it, and after at
\* most one text wait; the iframes are probed in one pass, which ends in one of
\* them or, after them all, in the top-level document.
C15_Terminates ==
    /\ <>Ended
    /\ [](pc = "wait_for_result" => <>(pc = "api_status"))
    /\ [](Waiting => clock < end + PollTicks + 1)
    /\ [](Cardinality(Events("text_wait")) <= 1)
    /\ [](Cardinality(Events("probe")) <= 1)
    /\ [][pc = "probe" => pc' = "card_number" /\ ctx' \in 0..Len(page.frames)]_vars

\* C15 witness: a run that ended after the probe of the iframes ended in one of
\* them and wait_for_result polled up to its deadline and made the text wait
C15_Witness ==
    /\ Ended
    /\ clock >= end
    /\ Events("text_wait") # {}
    /\ \E i \in Events("probe") : log[i].ctx > 0

\* the displayed elements of the active document whose text holds a status word
StatusElements ==
    {i \in 1..Len(Doc(page, ctx)) :
        IsStatus(Doc(page, ctx)[i]) /\ Doc(page, ctx)[i].visible}

\* the trimmed text of element i of the active document, as it is displayed
TrimmedText(i) == Strip(RenderedText(<<Doc(page, ctx)[i]>>))

\* C16 (as claimed): when the deadline passed without a URL outcome and an
\* element holding a status word is displayed, wait_for_result returns the
\* trimmed text of that element; it returns UNKNOWN only when no such element
\* is displayed, so that the text wait times out.
C16_MessageText ==
    [][pc = "text_wait" =>
          /\ StatusElements # {} => \E i \in StatusElements : result' = TrimmedText(i)
          /\ result' = r_UNKNOWN => StatusElements = {}]_vars

\* element o of document d is an option with the given text that can be
\* clicked: an element with role=option or a list item
OptionOffered(d, o, text) ==
    /\ d[o].role = s_option \/ d[o].tag = "li"
    /\ NormalizeSpace(d[o].text) = text
    /\ d[o].visible
    /\ d[o].enabled

\* C17 (as claimed): _select_by_text on a displayed control selects natively
\* when the control is a <select> with the option, touching nothing else; only
\* otherwise it clicks the control open, and it then succeeds exactly when an
\* option with the target text is offered, be it an element with role=option
\* or a list item.
C17_CustomDropdown ==
    pc = "salutation" =>
        \A k \in 1..Len(SalutationLabels) :
            LET d == Doc(page, ctx)
                loc == ByLabelSelect(d, SalutationLabels[k])
                i == VisibleElement(d, loc)
                r == SelectByText(d, loc, SalutationText)
            IN  i # 0 =>
                    IF NativeSelectable(d[i], SalutationText)
                    THEN r.ok /\ r.doc = [d EXCEPT ![i].value = SalutationText]
                    ELSE r.ok <=> \E o \in 1..Len(d) :
                                      OptionOffered(Click(d, i), o, SalutationText)

\* the log entry i is the entry of the card field op, and it succeeded or not
CardField(i, op, ok) ==
    /\ i \in 1..Len(log)
    /\ log[i].kind = "field" /\ log[i].op = op /\ log[i].ok = ok

\* after the log entry i comes the entry of the card field op, or it is due
ThenCardField(i, op) ==
    IF i = Len(log) THEN pc = op
    ELSE log[i + 1].kind = "field" /\ log[i + 1].op = op

\* the log entry i is followed by the raise of fill_credit_card, nothing else
ThenAborted(i) ==
    /\ i < Len(log)
    /\ log[i + 1].kind = "raise" /\ log[i + 1].op = "fill_credit_card"
    /\ exc # "none"
    /\ \A j \in 1..Len(log) : ~(log[j].kind = "field" /\ log[j].op = "cvc")

\* some element of the active document that the locator of the card entry op
\* matches holds the value of that entry
Holds(op) ==
    \E k \in 1..Len(Doc(page, ctx)) :
        /\ Matches(Doc(page, ctx), k, CardEntry(op).loc)
        /\ Doc(page, ctx)[k].value = CardEntry(op).value

\* C19: fill_credit_card enters the expiry as MM/YY first, after the card
\* number; the month and the year are entered by their ids when, and only
\* when, that entry failed; the CVV is entered after the combined expiry that
\* succeeded or after the year that succeeded, and never after a month or
\* year that failed: the step then raises. All card entries are made in the
\* context the probe left, the top-level document when the probe found no
\* iframe showing the card number.
C19_ExpiryFallback ==
    /\ \A i \in 1..Len(log) :
          CASE log[i].kind = "field" /\ log[i].op = "expiry" ->
                  /\ CardField(i - 1, "card_number", TRUE)
                  /\ ThenCardField(i, IF log[i].ok THEN "cvc" ELSE "expiry_month")
            [] log[i].kind = "field" /\ log[i].op = "expiry_month" ->
                  /\ CardField(i - 1, "expiry", FALSE)
                  /\ IF log[i].ok THEN ThenCardField(i, "expiry_year") ELSE ThenAborted(i)
            [] log[i].kind = "field" /\ log[i].op = "expiry_year" ->
                  /\ CardField(i - 1, "expiry_month", TRUE)
                  /\ IF log[i].ok THEN ThenCardField(i, "cvc") ELSE ThenAborted(i)
            [] log[i].kind = "field" /\ log[i].op = "cvc" ->
                  CardField(i - 1, "expiry", TRUE) \/ CardField(i - 1, "expiry_year", TRUE)
            [] log[i].kind = "probe" /\ ~log[i].ok ->
                  \A j \in (i + 1)..Len(log) : log[j].kind = "field" => log[j].ctx = 0
            [] OTHER -> TRUE
    /\ (pc = "cvc" /\ CardField(Len(log), "expiry", TRUE)) => Holds("expiry")
    /\ (pc = "cvc" /\ CardField(Len(log), "expiry_year", TRUE)) =>
           Holds("expiry_month") /\ Holds("expiry_year")

\* C19 witness: no iframe showed the card number; in the top-level document the
\* combined expiry failed, the month was entered, the year failed, and the
\* step raised
C19_Witness ==
    \E i \in 1..Len(log) :
        /\ log[i].kind = "probe" /\ ~log[i].ok
        /\ CardField(i + 2, "expiry", FALSE)
        /\ CardField(i + 3, "expiry_month", TRUE)
        /\ CardField(i + 4, "expiry_year", FALSE)
        /\ ThenAborted(i + 4)

\* the log entry i is the click op, and it succeeded or not
Clicked(i, op, ok) ==
    /\ i \in 1..Len(log)
    /\ log[i].kind = "click" /\ log[i].op = op /\ log[i].ok = ok

SubmitOps == {"submit_type", "submit_text"}

\* C20: every submit click comes after the pay-now click that succeeded; the
\* submit control is clicked by type first, once; the click by text is
\* attempted exactly when the click by type failed, right after it; so at most
\* one submit click succeeds in a run; and after a pay-now click that failed
\* no submit click is attempted.
C20_SubmitOrder ==
    \A i \in 1..Len(log) :
        CASE log[i].kind = "click" /\ log[i].op = "submit_type" ->
                /\ \E j \in 1..(i - 1) : Clicked(j, "pay_now", TRUE)
                /\ IF log[i].ok
                   THEN log[i + 1].kind = "return" /\ log[i + 1].op = "click_submit"
                   ELSE log[i + 1].kind = "click" /\ log[i + 1].op = "submit_text"
                /\ \A j \in 1..Len(log) :
                      (j # i /\ log[j].kind = "click" /\ log[j].op \in SubmitOps /\ log[j].ok)
                          => ~log[i].ok /\ j = i + 1
                /\ \A j \in 1..Len(log) :
                      (log[j].kind = "click" /\ log[j].op = "submit_type") => j = i
          [] log[i].kind = "click" /\ log[i].op = "submit_text" ->
                Clicked(i - 1, "submit_type", FALSE)
          [] log[i].kind = "click" /\ log[i].op = "pay_now" /\ ~log[i].ok ->
                /\ exc # "none"
                /\ \A j \in 1..Len(log) : ~(log[j].kind = "click" /\ log[j].op \in SubmitOps)
          [] OTHER -> TRUE

\* C20 witness: after the pay-now click the click by type failed and the click
\* by text succeeded
C20_Witness ==
    \E i \in 1..Len(log) :
        /\ \E j \in 1..(i - 1) : Clicked(j, "pay_now", TRUE)
        /\ Clicked(i, "submit_type", FALSE)
        /\ Clicked(i + 1, "submit_text", TRUE)

\* C23: after _enter_any returned normally, the field it filled holds exactly
\* the value given, whatever the field held before and whichever strategy
\* resolved it: a label candidate, the attribute keywords or the contenteditable
\* fallback.
C23_EnterAnyReplaces ==
    (last.op = "enter_any" /\ last.res.ok) =>
        Doc(page, ctx)[last.res.el].value = last.value

----------------------------------------------------------------------------
(* Claims about the except and finally clauses of run.                      *)

\* the error screenshots attempted and the calls of driver.quit()
Shots == Events("error_screenshot")

Quits == Events("teardown")

\* C21 as stated: on a run in which a step raised, the error screenshot has
\* been attempted when teardown begins; every run that ended has quit the
\* browser exactly once; a run in which a step raised (whose screenshot was
\* therefore attempted) ends with that step's error; and a run without error
\* takes no error screenshot.
C21_EvidenceAlways ==
    /\ (pc = "teardown" /\ exc = "error") => Shots # {}
    /\ Ended => Cardinality(Quits) = 1
    /\ (Ended /\ Shots # {}) => exc = "error"
    /\ (pc \in {"teardown", "done"} /\ exc = "none") => Shots = {}

\* C21, amended: an error raised in the try block is pending in the except
\* clause, in teardown and at the end only; when teardown begins with it
\* pending and the browser was started, the error screenshot is the last
\* thing attempted, and when the browser was never started (setup raised
\* before creating it) neither a screenshot nor a quit is ever attempted;
\* the browser is quit exactly once when it was started, after the
\* screenshot; the run ends raised with the original error when the quit
\* succeeded and with the error of the quit when it failed, and ends done
\* exactly when nothing raised, having taken no error screenshot.
C21_EvidenceThenTeardown ==
    /\ exc = "error" => pc \in {"except", "teardown", "raised"}
    /\ exc = "quit_error" => pc = "raised"
    /\ pc = "except" => exc = "error" /\ Shots = {} /\ Quits = {}
    /\ pc = "teardown" =>
          /\ Quits = {}
          /\ driver # "quit"
          /\ IF exc = "error" /\ driver = "open"
             THEN Shots = {Len(log)}
             ELSE Shots = {}
    /\ \A s \in Shots : \A q \in Quits : s < q
    /\ \A q \in Quits : \A r \in Quits : q = r
    /\ (Quits # {}) = (driver = "quit")
    /\ driver = "none" => Shots = {}
    /\ Ended =>
          /\ driver # "open"
          /\ (pc = "done") = (exc = "none")
          /\ exc = "none" => Shots = {} /\ driver = "quit"
          /\ exc = "error" => Cardinality(Shots) = IF driver = "quit" THEN 1 ELSE 0
          /\ (exc = "quit_error") = (\E q \in Quits : ~log[q].ok)

\* C21 witness: a run ended raising the error of one of its steps, after the
\* error screenshot was attempted and the browser was then quit
C21_Witness ==
    /\ pc = "raised"
    /\ exc = "error"
    /\ \E s \in Shots : \E q \in Quits : s < q /\ log[q].ok

\* the log entries at which fill_credit_card finished: its return or its raise
CardFinished == {i \in 1..Len(log) : log[i].op = "fill_credit_card" /\ log[i].kind \in {"return", "raise"}}

\* C22: whenever fill_credit_card finishes, by returning or by raising after a
\* card entry failed, the active frame context is the top-level document:
\* every frame the probe entered has been left again.
C22_FrameExitOnEveryPath ==
    \A i \in CardFinished : log[i].ctx = 0

====
